---- MODULE Spec2Model ----
(***************************************************************************)
(* Session fork consumption (consumeFork) of the pass package, as a state  *)
(* machine: the calls of consumeFork, the API client and the crypto        *)
(* helpers it awaits, and the value or error the caller finally observes;  *)
(* the fork helpers requestFork, getConsumeForkParameters and              *)
(* getAccountForkResponsePayload; and the calendar's invitation helpers.   *)
(***************************************************************************)
EXTENDS Integers, Sequences, FiniteSets, TLC

VARIABLES
    payload,    \* options.payload
    apiUrl,     \* options.apiUrl (None when absent)
    pc,         \* the await consumeFork is suspended at
    pending,    \* operations issued and not yet settled
    log,        \* every issue / resolve / reject, in order
    pulled,     \* { UID, RefreshToken, LocalID, Payload } once pull-fork resolved
    refresh,    \* the refresh response once resolved
    User,       \* the user record once resolved
    result,     \* what the caller of consumeFork observes
    calls       \* the earlier calls of consumeFork with this payload, as seen by the caller

VARIABLES
    call,       \* the invocation of a fork helper: the function and its arguments
    returned    \* what that invocation returned (None until it has)

VARIABLES
    invite,             \* the arguments of createIntermediateEvent / getUpdateInviteOperationWithIntermediateEvent
    invitePc,           \* the await the invitation helper is suspended at
    inviteLog,          \* every call of a collaborator and its settling, in order
    cleanInviteActions, \* inviteActions as returned by onSendPrefsErrors (then amended)
    cleanVevent,        \* vevent as returned by onSendPrefsErrors
    intermediateEvent,  \* the Event of the sync response
    inviteResult        \* what the caller of the invitation helper observes

VARIABLES
    hasSession,         \* authentication.hasSession()
    sessionLockToken,   \* what selectSessionLockToken gives
    storage,            \* browserLocalStorage: the entries salt, state, snapshot
    worker,             \* the cacheWorker task that takeLatest holds, or None
    writes,             \* per cacheWorker run, its setItem call made and not yet settled
    cacheLog,           \* what each cacheWorker run did, in order
    runs,               \* how many cache-triggering actions the watcher has taken
    watcher             \* "running", or "aborted" once an error reached it

VARIABLES
    loginValues,        \* the values of the login edit form
    loginLog            \* the dispatch and onSubmit calls of the form, in order

VARIABLES
    composerMessage,    \* the message of the composer
    modal,              \* password, passwordVerif and passwordHint of the open modal, or None
    modalLog,           \* the createNotification, onChange and onClose calls, in order
    opens               \* how many times the modal has been opened

forkVars == <<payload, apiUrl, pc, pending, log, pulled, refresh, User, result, calls>>
helperVars == <<call, returned>>

(* what an action of consumeFork leaves alone *)
inviteVars == <<invite, invitePc, inviteLog, cleanInviteActions, cleanVevent,
                intermediateEvent, inviteResult>>

cacheVars == <<hasSession, sessionLockToken, storage, worker, writes, cacheLog, runs, watcher>>

loginVars == <<loginValues, loginLog>>

modalVars == <<composerMessage, modal, modalLog, opens>>

otherThanFork == <<helperVars, inviteVars, cacheVars, loginVars, modalVars>>

vars == <<forkVars, helperVars, inviteVars, cacheVars, loginVars, modalVars>>

(* how often consumeFork is called with one payload *)
MaxCalls == 2

(* JavaScript undefined / null, and a present value *)
None == <<>>
Some(x) == <<x>>
IsSome(o) == o # None
Get(o) == o[1]

(* ------------------------------ inputs ------------------------------- *)

Selectors == {"", "sel"}
States == {"", "st", "st2"}
LocalStates == {None, Some(""), Some("st"), Some("st2")}
RawKeys == {None, Some(<<>>), Some(<<7>>)}
Versions == {1, 2}
KeyPasswords == {"", "pw"}
ApiUrls == {None, Some(""), Some("https://pass-api")}

SsoPayloads ==
    [mode : {"sso"}, localState : LocalStates, state : States,
     selector : Selectors, key : RawKeys, version : Versions]

SecurePayloads ==
    [mode : {"secure"}, state : States, selector : Selectors, keyPassword : KeyPasswords]

ConsumeForkPayload == SsoPayloads \cup SecurePayloads

(* ------------------------ what the provider answers ------------------- *)

PullForkResponses ==
    [UID : {"u1", "u2"}, RefreshToken : {"r1"}, LocalID : {0, 3}, Payload : {"enc"}]

RefreshSessionResponses == [AccessToken : {"a2"}, RefreshToken : {"r1", "r2"}]

Users == [ID : {"user-9"}]

ApiErrors == {[name |-> "ApiError", message |-> "Unprocessable"],
              [name |-> "Error", message |-> "Failed to fetch"]}

CryptoErrors == {[name |-> "OperationError", message |-> ""],
                 [name |-> "Error", message |-> "Unsupported version"]}

(* what getForkDecryptedBlob may resolve with: undefined, or a blob whose *)
(* keyPassword may itself be undefined                                    *)
DecryptedBlobs == {None} \cup {Some([keyPassword |-> kp]) : kp \in {None, Some(""), Some("pw")}}

CryptoKeys == {"k"}

InvalidForkConsumeError(message) == [name |-> "InvalidForkConsumeError", message |-> message]

(* ------------------------------ requests ------------------------------ *)

pullForkSession(selector) ==
    [url |-> "pull-fork/" \o selector, method |-> "get"]

refreshTokens(RefreshToken) ==
    [url |-> "refresh", method |-> "post", RefreshToken |-> RefreshToken]

getUser == [url |-> "get-user", method |-> "get"]

withUIDHeaders(UID, config) == [config |-> config, UID |-> UID]

withAuthHeaders(UID, AccessToken, config) ==
    [config |-> config, UID |-> UID, AccessToken |-> AccessToken]

(* ------------------------------- events ------------------------------- *)

Issue(op, arg) == [ev |-> "issue", op |-> op, arg |-> arg]
Resolve(op, arg) == [ev |-> "resolve", op |-> op, arg |-> arg]
Reject(op, arg) == [ev |-> "reject", op |-> op, arg |-> arg]

Return(session) == [kind |-> "ok", session |-> session]
Throw(error) == [kind |-> "error", error |-> error]
Running == [kind |-> "none"]

(* ------------------------------ consumeFork --------------------------- *)

(* the gate without the localState check *)
validForkWithoutLocalState(p) ==
    /\ \/ p.mode = "secure"
       \/ p.key # None
    /\ p.selector # ""
    /\ p.state # ""

(* the gate with state bound to localState in sso mode *)
validForkStateBound(p) ==
    /\ \/ p.mode = "secure"
       \/ (p.localState # None /\ p.key # None /\ Get(p.localState) = p.state)
    /\ p.selector # ""
    /\ p.state # ""

(* the gate with the secure mode excused from every check *)
validForkSecureBypass(p) ==
    \/ p.mode = "secure"
    \/ (p.localState # None /\ p.key # None /\ p.selector # "" /\ p.state # "")

validFork(p) ==
    /\ \/ p.mode = "secure"
       \/ (p.localState # None /\ p.key # None)
    /\ p.selector # ""
    /\ p.state # ""

(* the override glued to the path without the separator *)
pullForkParamsNoSeparator(p, url) ==
    LET params == pullForkSession(p.selector)
    IN  IF url # None /\ Get(url) # ""
        THEN [params EXCEPT !.url = Get(url) \o params.url]
        ELSE params

pullForkParams(p, url) ==
    LET params == pullForkSession(p.selector)
    IN  IF url # None /\ Get(url) # ""
        THEN [params EXCEPT !.url = Get(url) \o "/" \o params.url]
        ELSE params

blobKeyPassword(blob) ==
    IF blob # None /\ Get(blob).keyPassword # None
    THEN Get(Get(blob).keyPassword)
    ELSE ""

(* the session keeping the refresh token of pull-fork *)
AuthSessionStaleRefreshToken(pull, refr, user, keyPassword) ==
    [AccessToken  |-> refr.AccessToken,
     keyPassword  |-> keyPassword,
     LocalID      |-> pull.LocalID,
     RefreshToken |-> pull.RefreshToken,
     UID          |-> pull.UID,
     UserID       |-> user.ID]

(* the session with UID and UserID exchanged *)
AuthSessionSwappedIds(pull, refr, user, keyPassword) ==
    [AccessToken  |-> refr.AccessToken,
     keyPassword  |-> keyPassword,
     LocalID      |-> pull.LocalID,
     RefreshToken |-> refr.RefreshToken,
     UID          |-> user.ID,
     UserID       |-> pull.UID]

AuthSession(pull, refr, user, keyPassword) ==
    [AccessToken  |-> refr.AccessToken,
     keyPassword  |-> keyPassword,
     LocalID      |-> pull.LocalID,
     RefreshToken |-> refr.RefreshToken,
     UID          |-> pull.UID,
     UserID       |-> user.ID]

(* no invitation helper is running *)
InviteIdle ==
    /\ invite = None
    /\ invitePc = "idle"
    /\ inviteLog = <<>>
    /\ cleanInviteActions = None
    /\ cleanVevent = None
    /\ intermediateEvent = None
    /\ inviteResult = Running

MaxRuns == 2

(* the cache saga has taken no action *)
CacheIdle ==
    /\ hasSession = FALSE
    /\ sessionLockToken = None
    /\ storage = [salt |-> None, state |-> None, snapshot |-> None]
    /\ worker = None
    /\ writes = [r \in 1..MaxRuns |-> None]
    /\ cacheLog = <<>>
    /\ runs = 0
    /\ watcher = "running"

(* the login edit form is not shown *)
LoginIdle ==
    /\ loginValues = None
    /\ loginLog = <<>>

(* the composer has no message and the password modal is closed *)
ModalIdle ==
    /\ composerMessage = None
    /\ modal = None
    /\ modalLog = <<>>
    /\ opens = 0

Init ==
    /\ payload \in ConsumeForkPayload
    /\ apiUrl \in ApiUrls
    /\ pc = "init"
    /\ pending = {}
    /\ log = <<>>
    /\ pulled = None
    /\ refresh = None
    /\ User = None
    /\ result = Running
    /\ calls = <<>>
    /\ call = None
    /\ returned = None
    /\ InviteIdle
    /\ CacheIdle
    /\ LoginIdle
    /\ ModalIdle

(* a core that remembers the selectors it has redeemed *)
ConsumeForkOnce ==
    /\ pc = "init"
    /\ IF ~validFork(payload) \/ (\E i \in DOMAIN calls : calls[i].kind = "ok")
       THEN /\ result' = Throw(InvalidForkConsumeError("Invalid fork state"))
            /\ pc' = "done"
            /\ UNCHANGED <<pending, log>>
       ELSE /\ log' = Append(log, Issue("pullForkSession", pullForkParams(payload, apiUrl)))
            /\ pending' = pending \cup {"pullForkSession"}
            /\ pc' = "pullFork"
            /\ UNCHANGED result
    /\ UNCHANGED <<calls, otherThanFork, payload, apiUrl, pulled, refresh, User>>

(* the pull-fork request issued before the gate is looked at *)
ConsumeForkPullFirst ==
    /\ pc = "init"
    /\ log' = Append(log, Issue("pullForkSession", pullForkParams(payload, apiUrl)))
    /\ pending' = pending \cup {"pullForkSession"}
    /\ IF ~validFork(payload)
       THEN /\ result' = Throw(InvalidForkConsumeError("Invalid fork state"))
            /\ pc' = "done"
       ELSE /\ pc' = "pullFork"
            /\ UNCHANGED result
    /\ UNCHANGED <<calls, otherThanFork, payload, apiUrl, pulled, refresh, User>>

(* lines 109-121: the gate, then the pull-fork request is issued *)
ConsumeFork ==
    /\ pc = "init"
    /\ IF ~validFork(payload)
       THEN /\ result' = Throw(InvalidForkConsumeError("Invalid fork state"))
            /\ pc' = "done"
            /\ UNCHANGED <<pending, log>>
       ELSE /\ log' = Append(log, Issue("pullForkSession", pullForkParams(payload, apiUrl)))
            /\ pending' = pending \cup {"pullForkSession"}
            /\ pc' = "pullFork"
            /\ UNCHANGED result
    /\ UNCHANGED <<calls, otherThanFork, payload, apiUrl, pulled, refresh, User>>

(* line 121 resolves, line 122 issues the refresh *)
PullForkResolve ==
    /\ pc = "pullFork"
    /\ "pullForkSession" \in pending
    /\ \E res \in PullForkResponses :
        /\ pulled' = Some(res)
        /\ log' = log \o <<Resolve("pullForkSession", res),
                           Issue("setRefreshCookies",
                                 withUIDHeaders(res.UID, refreshTokens(res.RefreshToken)))>>
    /\ pending' = (pending \ {"pullForkSession"}) \cup {"setRefreshCookies"}
    /\ pc' = "refresh"
    /\ UNCHANGED <<calls, otherThanFork, payload, apiUrl, refresh, User, result>>

PullForkReject ==
    /\ pc = "pullFork"
    /\ "pullForkSession" \in pending
    /\ \E e \in ApiErrors :
        /\ log' = Append(log, Reject("pullForkSession", e))
        /\ result' = Throw(e)
    /\ pending' = pending \ {"pullForkSession"}
    /\ pc' = "done"
    /\ UNCHANGED <<calls, otherThanFork, payload, apiUrl, pulled, refresh, User>>

(* key derivation started together with get-user *)
RefreshResolveEagerGetKey ==
    /\ pc = "refresh"
    /\ "setRefreshCookies" \in pending
    /\ \E res \in RefreshSessionResponses :
        /\ refresh' = Some(res)
        /\ log' = log \o <<Resolve("setRefreshCookies", res),
                           Issue("getUser",
                                 withAuthHeaders(Get(pulled).UID, res.AccessToken, getUser))>>
                      \o (IF payload.mode = "secure" THEN <<>>
                          ELSE <<Issue("getKey", Get(payload.key))>>)
    /\ pending' = (pending \ {"setRefreshCookies"}) \cup {"getUser"}
                      \cup (IF payload.mode = "secure" THEN {} ELSE {"getKey"})
    /\ pc' = "getUser"
    /\ UNCHANGED <<calls, otherThanFork, payload, apiUrl, pulled, User, result>>

(* line 122 resolves, line 123 issues get-user *)
RefreshResolve ==
    /\ pc = "refresh"
    /\ "setRefreshCookies" \in pending
    /\ \E res \in RefreshSessionResponses :
        /\ refresh' = Some(res)
        /\ log' = log \o <<Resolve("setRefreshCookies", res),
                           Issue("getUser",
                                 withAuthHeaders(Get(pulled).UID, res.AccessToken, getUser))>>
    /\ pending' = (pending \ {"setRefreshCookies"}) \cup {"getUser"}
    /\ pc' = "getUser"
    /\ UNCHANGED <<calls, otherThanFork, payload, apiUrl, pulled, User, result>>

(* the refresh failure wrapped in InvalidForkConsumeError *)
RefreshRejectWrapped ==
    /\ pc = "refresh"
    /\ "setRefreshCookies" \in pending
    /\ \E e \in ApiErrors :
        /\ log' = Append(log, Reject("setRefreshCookies", e))
        /\ result' = Throw(InvalidForkConsumeError(e.message))
    /\ pending' = pending \ {"setRefreshCookies"}
    /\ pc' = "done"
    /\ UNCHANGED <<calls, otherThanFork, payload, apiUrl, pulled, refresh, User>>

RefreshReject ==
    /\ pc = "refresh"
    /\ "setRefreshCookies" \in pending
    /\ \E e \in ApiErrors :
        /\ log' = Append(log, Reject("setRefreshCookies", e))
        /\ result' = Throw(e)
    /\ pending' = pending \ {"setRefreshCookies"}
    /\ pc' = "done"
    /\ UNCHANGED <<calls, otherThanFork, payload, apiUrl, pulled, refresh, User>>

(* the decryption path taken whatever the mode *)
GetUserResolveAlwaysDecrypt ==
    /\ pc = "getUser"
    /\ "getUser" \in pending
    /\ \E u \in Users :
        /\ User' = Some(u)
        /\ log' = log \o <<Resolve("getUser", u),
                           Issue("getKey", IF payload.mode = "secure" THEN None
                                           ELSE Get(payload.key))>>
    /\ pending' = (pending \ {"getUser"}) \cup {"getKey"}
    /\ pc' = "getKey"
    /\ UNCHANGED <<calls, otherThanFork, payload, apiUrl, pulled, refresh, result>>

(* line 123 resolves; lines 125-131: secure returns at once, sso calls getKey *)
GetUserResolve ==
    /\ pc = "getUser"
    /\ "getUser" \in pending
    /\ \E u \in Users :
        /\ User' = Some(u)
        /\ IF payload.mode = "secure"
           THEN /\ log' = Append(log, Resolve("getUser", u))
                /\ pending' = pending \ {"getUser"}
                /\ result' = Return(AuthSession(Get(pulled), Get(refresh), u, payload.keyPassword))
                /\ pc' = "done"
           ELSE /\ log' = log \o <<Resolve("getUser", u), Issue("getKey", Get(payload.key))>>
                /\ pending' = (pending \ {"getUser"}) \cup {"getKey"}
                /\ pc' = "getKey"
                /\ UNCHANGED result
    /\ UNCHANGED <<calls, otherThanFork, payload, apiUrl, pulled, refresh>>

(* a get-user failure answered with a session that lacks the user *)
GetUserRejectPartial ==
    /\ pc = "getUser"
    /\ "getUser" \in pending
    /\ \E e \in ApiErrors :
        /\ log' = Append(log, Reject("getUser", e))
        /\ result' = Return(AuthSession(Get(pulled), Get(refresh), [ID |-> ""], ""))
    /\ pending' = pending \ {"getUser"}
    /\ pc' = "done"
    /\ UNCHANGED <<calls, otherThanFork, payload, apiUrl, pulled, refresh, User>>

GetUserReject ==
    /\ pc = "getUser"
    /\ "getUser" \in pending
    /\ \E e \in ApiErrors :
        /\ log' = Append(log, Reject("getUser", e))
        /\ result' = Throw(e)
    /\ pending' = pending \ {"getUser"}
    /\ pc' = "done"
    /\ UNCHANGED <<calls, otherThanFork, payload, apiUrl, pulled, refresh, User>>

(* line 130 resolves, line 131 calls getForkDecryptedBlob *)
GetKeyResolve ==
    /\ pc = "getKey"
    /\ "getKey" \in pending
    /\ \E key \in CryptoKeys :
        log' = log \o <<Resolve("getKey", key),
                        Issue("getForkDecryptedBlob",
                              [key |-> key, data |-> Get(pulled).Payload,
                               version |-> payload.version])>>
    /\ pending' = (pending \ {"getKey"}) \cup {"getForkDecryptedBlob"}
    /\ pc' = "getForkDecryptedBlob"
    /\ UNCHANGED <<calls, otherThanFork, payload, apiUrl, pulled, refresh, User, result>>

(* lines 132-134 *)
GetKeyReject ==
    /\ pc = "getKey"
    /\ "getKey" \in pending
    /\ \E e \in CryptoErrors :
        log' = Append(log, Reject("getKey", e))
    /\ result' = Throw(InvalidForkConsumeError("Failed to decrypt fork payload"))
    /\ pending' = pending \ {"getKey"}
    /\ pc' = "done"
    /\ UNCHANGED <<calls, otherThanFork, payload, apiUrl, pulled, refresh, User>>

(* line 131 resolves, lines 137-144 *)
DecryptResolve ==
    /\ pc = "getForkDecryptedBlob"
    /\ "getForkDecryptedBlob" \in pending
    /\ \E blob \in DecryptedBlobs :
        /\ log' = Append(log, Resolve("getForkDecryptedBlob", blob))
        /\ result' = Return(AuthSession(Get(pulled), Get(refresh), Get(User),
                                        blobKeyPassword(blob)))
    /\ pending' = pending \ {"getForkDecryptedBlob"}
    /\ pc' = "done"
    /\ UNCHANGED <<calls, otherThanFork, payload, apiUrl, pulled, refresh, User>>

(* getForkDecryptedBlob awaited outside the try block *)
DecryptRejectUnwrapped ==
    /\ pc = "getForkDecryptedBlob"
    /\ "getForkDecryptedBlob" \in pending
    /\ \E e \in CryptoErrors :
        /\ log' = Append(log, Reject("getForkDecryptedBlob", e))
        /\ result' = Throw(e)
    /\ pending' = pending \ {"getForkDecryptedBlob"}
    /\ pc' = "done"
    /\ UNCHANGED <<calls, otherThanFork, payload, apiUrl, pulled, refresh, User>>

(* a decryption failure followed by a call that gives the session back *)
DecryptRejectCompensates ==
    /\ pc = "getForkDecryptedBlob"
    /\ "getForkDecryptedBlob" \in pending
    /\ \E e \in CryptoErrors :
        log' = log \o <<Reject("getForkDecryptedBlob", e),
                        Issue("revoke", withAuthHeaders(Get(pulled).UID, Get(refresh).AccessToken,
                                                        [url |-> "revoke", method |-> "delete"]))>>
    /\ result' = Throw(InvalidForkConsumeError("Failed to decrypt fork payload"))
    /\ pending' = pending \ {"getForkDecryptedBlob"}
    /\ pc' = "done"
    /\ UNCHANGED <<calls, otherThanFork, payload, apiUrl, pulled, refresh, User>>

DecryptReject ==
    /\ pc = "getForkDecryptedBlob"
    /\ "getForkDecryptedBlob" \in pending
    /\ \E e \in CryptoErrors :
        log' = Append(log, Reject("getForkDecryptedBlob", e))
    /\ result' = Throw(InvalidForkConsumeError("Failed to decrypt fork payload"))
    /\ pending' = pending \ {"getForkDecryptedBlob"}
    /\ pc' = "done"
    /\ UNCHANGED <<calls, otherThanFork, payload, apiUrl, pulled, refresh, User>>

(* line 108: the caller calls consumeFork once more with the same options; *)
(* nothing of the finished call is kept by consumeFork                     *)
ConsumeForkAgain ==
    /\ pc = "done"
    /\ Len(calls) + 1 < MaxCalls
    /\ calls' = Append(calls, [accepted |-> log # <<>>, kind |-> result.kind])
    /\ pc' = "init"
    /\ pending' = {}
    /\ log' = <<>>
    /\ pulled' = None
    /\ refresh' = None
    /\ User' = None
    /\ result' = Running
    /\ UNCHANGED <<otherThanFork, payload, apiUrl>>

Next ==
    \/ ConsumeFork
    \/ ConsumeForkAgain
    \/ PullForkResolve
    \/ PullForkReject
    \/ RefreshResolve
    \/ RefreshReject
    \/ GetUserResolve
    \/ GetUserReject
    \/ GetKeyResolve
    \/ GetKeyReject
    \/ DecryptResolve
    \/ DecryptReject

Spec == Init /\ [][Next]_vars

(* ====================================================================== *)
(* The fork helpers. Text is a sequence of one-character strings, so that *)
(* encoding, escaping, slicing and parsing are computed on characters.    *)
(* ====================================================================== *)

Min(a, b) == IF a < b THEN a ELSE b

(* String.prototype.slice(from) and slice(0, to), 0-based as in the code *)
SliceFrom(str, from) == SubSeq(str, from + 1, Len(str))
SliceTo(str, to) == SubSeq(str, 1, Min(to, Len(str)))

(* String.prototype.indexOf / lastIndexOf for one character: -1 when absent *)
IndexOf(str, c) ==
    IF \E i \in DOMAIN str : str[i] = c
    THEN (CHOOSE i \in DOMAIN str : str[i] = c /\ \A j \in 1..(i - 1) : str[j] # c) - 1
    ELSE -1

LastIndexOf(str, c) ==
    IF \E i \in DOMAIN str : str[i] = c
    THEN (CHOOSE i \in DOMAIN str : str[i] = c /\ \A j \in (i + 1)..Len(str) : str[j] # c) - 1
    ELSE -1

RECURSIVE Split(_, _)
Split(str, sep) ==
    IF IndexOf(str, sep) = -1 THEN <<str>>
    ELSE <<SliceTo(str, IndexOf(str, sep))>> \o Split(SliceFrom(str, IndexOf(str, sep) + 1), sep)

(* the concatenation of a sequence of texts *)
RECURSIVE Flatten(_)
Flatten(parts) ==
    IF parts = <<>> THEN <<>>
    ELSE IF Len(parts) = 1 THEN parts[1]
    ELSE Flatten(SubSeq(parts, 1, Len(parts) \div 2))
         \o Flatten(SubSeq(parts, (Len(parts) \div 2) + 1, Len(parts)))

RECURSIVE Join(_, _)
Join(parts, sep) ==
    IF parts = <<>> THEN <<>>
    ELSE IF Len(parts) = 1 THEN parts[1]
    ELSE parts[1] \o sep \o Join(Tail(parts), sep)

(* `${n}` for a non-negative integer *)
Digits == <<"0", "1", "2", "3", "4", "5", "6", "7", "8", "9">>

RECURSIVE ToDecimal(_)
ToDecimal(n) ==
    IF n < 10 THEN <<Digits[n + 1]>>
    ELSE ToDecimal(n \div 10) \o <<Digits[(n % 10) + 1]>>

(* ------------------------------- base64 ------------------------------- *)

Base64Alphabet ==
    <<"A", "B", "C", "D", "E", "F", "G", "H", "I", "J", "K", "L", "M", "N", "O", "P",
      "Q", "R", "S", "T", "U", "V", "W", "X", "Y", "Z", "a", "b", "c", "d", "e", "f",
      "g", "h", "i", "j", "k", "l", "m", "n", "o", "p", "q", "r", "s", "t", "u", "v",
      "w", "x", "y", "z", "0", "1", "2", "3", "4", "5", "6", "7", "8", "9", "+", "/">>

RECURSIVE encodeBase64(_)
encodeBase64(bytes) ==
    IF bytes = <<>> THEN <<>>
    ELSE IF Len(bytes) = 1 THEN
        <<Base64Alphabet[(bytes[1] \div 4) + 1],
          Base64Alphabet[((bytes[1] % 4) * 16) + 1], "=", "=">>
    ELSE IF Len(bytes) = 2 THEN
        <<Base64Alphabet[(bytes[1] \div 4) + 1],
          Base64Alphabet[((bytes[1] % 4) * 16) + (bytes[2] \div 16) + 1],
          Base64Alphabet[((bytes[2] % 16) * 4) + 1], "=">>
    ELSE
        <<Base64Alphabet[(bytes[1] \div 4) + 1],
          Base64Alphabet[((bytes[1] % 4) * 16) + (bytes[2] \div 16) + 1],
          Base64Alphabet[((bytes[2] % 16) * 4) + (bytes[3] \div 64) + 1],
          Base64Alphabet[(bytes[3] % 64) + 1]>>
        \o encodeBase64(SubSeq(bytes, 4, Len(bytes)))

(* str.replace(/from/g, to) for one character, and str.replace(/c/g, '') *)
ReplaceAll(str, from, to) == [i \in DOMAIN str |-> IF str[i] = from THEN to ELSE str[i]]

RemoveAll(str, c) == Flatten([i \in DOMAIN str |-> IF str[i] = c THEN <<>> ELSE <<str[i]>>])

(* uint8ArrayToString gives one character per byte; the binary string is *)
(* kept as the sequence of its character codes                           *)
uint8ArrayToString(bytes) == bytes

encodeBase64URL(str) ==
    RemoveAll(ReplaceAll(ReplaceAll(encodeBase64(str), "+", "-"), "/", "_"), "=")

(* --------------------------- URLSearchParams -------------------------- *)

(* the application/x-www-form-urlencoded byte serializer, for the        *)
(* characters that occur: the others are letters, digits and * - . _     *)
PercentEncoded ==
    [c \in {"+", "/", "=", "&", "#", ":", "%", "?"} |->
        CASE c = "+" -> <<"%", "2", "B">>
          [] c = "/" -> <<"%", "2", "F">>
          [] c = "=" -> <<"%", "3", "D">>
          [] c = "&" -> <<"%", "2", "6">>
          [] c = "#" -> <<"%", "2", "3">>
          [] c = ":" -> <<"%", "3", "A">>
          [] c = "%" -> <<"%", "2", "5">>
          [] c = "?" -> <<"%", "3", "F">>]

FormEncode(str) ==
    Flatten([i \in DOMAIN str |->
                IF str[i] = " " THEN <<"+">>
                ELSE IF str[i] \in DOMAIN PercentEncoded THEN PercentEncoded[str[i]]
                ELSE <<str[i]>>])

(* a '%' with the two digits of a known character after it *)
EscapeAt(str, i) ==
    /\ str[i] = "%"
    /\ i + 2 <= Len(str)
    /\ \E c \in DOMAIN PercentEncoded : PercentEncoded[c] = SubSeq(str, i, i + 2)

FormDecode(str) ==
    Flatten([i \in DOMAIN str |->
                IF EscapeAt(str, i)
                THEN <<CHOOSE c \in DOMAIN PercentEncoded : PercentEncoded[c] = SubSeq(str, i, i + 2)>>
                ELSE IF (i > 1 /\ EscapeAt(str, i - 1)) \/ (i > 2 /\ EscapeAt(str, i - 2)) THEN <<>>
                ELSE IF str[i] = "+" THEN <<" ">>
                ELSE <<str[i]>>])

(* searchParams.append(name, value) on the list of name-value pairs *)
SearchParamsAppend(params, name, value) == Append(params, <<name, value>>)

(* searchParams.toString() *)
SearchParamsToString(params) ==
    Join([i \in DOMAIN params |-> FormEncode(params[i][1]) \o <<"=">> \o FormEncode(params[i][2])],
         <<"&">>)

(* new URLSearchParams(str): a leading '?' is dropped, empty pieces are   *)
(* skipped, a piece is cut at its first '='                               *)
RECURSIVE ParsePieces(_)
ParsePieces(pieces) ==
    IF pieces = <<>> THEN <<>>
    ELSE LET piece == Head(pieces)
             eq == IndexOf(piece, "=")
         IN  (IF piece = <<>> THEN <<>>
              ELSE IF eq = -1 THEN <<<<FormDecode(piece), <<>>>>>>
              ELSE <<<<FormDecode(SliceTo(piece, eq)), FormDecode(SliceFrom(piece, eq + 1))>>>>)
             \o ParsePieces(Tail(pieces))

URLSearchParams(str) ==
    ParsePieces(Split(IF str # <<>> /\ Head(str) = "?" THEN Tail(str) ELSE str, "&"))

(* searchParams.get(name): the first value of that name, null when none *)
SearchParamsGet(params, name) ==
    IF \E i \in DOMAIN params : params[i][1] = name
    THEN Some(params[CHOOSE i \in DOMAIN params :
                        params[i][1] = name /\ \A j \in 1..(i - 1) : params[j][1] # name][2])
    ELSE None

(* value || '' *)
OrEmpty(value) == IF value = None THEN <<>> ELSE Get(value)

(* ------------------------------ requestFork --------------------------- *)

(* the length of the random state, line 81 *)
StateBytes == 32

AUTHORIZE == <<"/", "a", "u", "t", "h", "o", "r", "i", "z", "e">>
DefaultHost == <<"h", "t", "t", "p", "s", ":", "/", "/", "a", "c", "c", "o", "u", "n", "t">>

Apps == {<<"p", "r", "o", "t", "o", "n", "-", "p", "a", "s", "s">>, <<"p", "r", "o", "t", "o", "n", "-", "m", "a", "i", "l">>}
Hosts == {None, Some(<<"h", "t", "t", "p", "s", ":", "/", "/", "i", "d", ".", "t", "e", "s", "t", "/">>)}
LocalIDs == {None, Some(0), Some(1), Some(12)}
ForkTypes == {<<"1">>, <<"2">>}

(* what crypto.getRandomValues may fill the 32 bytes with *)
RandomValues ==
    {[i \in 1..StateBytes |-> b] : b \in {0, 255}}
        \cup {[i \in 1..StateBytes |-> (i * 37) % 256],
              [i \in 1..StateBytes |-> IF i % 3 = 1 THEN 251 ELSE IF i % 3 = 2 THEN 255 ELSE 191]}

RequestForkOptions ==
    [app : Apps, host : Hosts, localID : LocalIDs, type : {None} \cup {Some(t) : t \in ForkTypes}]

(* a u parameter only for a truthy localID *)
requestForkTruthyLocalID(options, random) ==
    LET host == IF options.host = None THEN DefaultHost ELSE Get(options.host)
        state == encodeBase64URL(uint8ArrayToString(random))
        p1 == SearchParamsAppend(<<>>, <<"a", "p", "p">>, options.app)
        p2 == SearchParamsAppend(p1, <<"s", "t", "a", "t", "e">>, state)
        p3 == SearchParamsAppend(p2, <<"i", "n", "d", "e", "p", "e", "n", "d", "e", "n", "t">>, <<"0">>)
        p4 == IF options.localID # None /\ Get(options.localID) # 0
              THEN SearchParamsAppend(p3, <<"u">>, ToDecimal(Get(options.localID))) ELSE p3
        p5 == IF options.type # None /\ Get(options.type) # <<>>
              THEN SearchParamsAppend(p4, <<"t">>, Get(options.type)) ELSE p4
    IN  [url |-> host \o AUTHORIZE \o <<"?">> \o SearchParamsToString(p5), state |-> state]

(* lines 75-92 *)
requestFork(options, random) ==
    LET host == IF options.host = None THEN DefaultHost ELSE Get(options.host)
        state == encodeBase64URL(uint8ArrayToString(random))
        p1 == SearchParamsAppend(<<>>, <<"a", "p", "p">>, options.app)
        p2 == SearchParamsAppend(p1, <<"s", "t", "a", "t", "e">>, state)
        p3 == SearchParamsAppend(p2, <<"i", "n", "d", "e", "p", "e", "n", "d", "e", "n", "t">>, <<"0">>)
        p4 == IF options.localID # None
              THEN SearchParamsAppend(p3, <<"u">>, ToDecimal(Get(options.localID))) ELSE p3
        p5 == IF options.type # None /\ Get(options.type) # <<>>
              THEN SearchParamsAppend(p4, <<"t">>, Get(options.type)) ELSE p4
    IN  [url |-> host \o AUTHORIZE \o <<"?">> \o SearchParamsToString(p5), state |-> state]

RequestForkCalls ==
    {[fn |-> "requestFork", options |-> o, random |-> r] : o \in RequestForkOptions, r \in RandomValues}

(* consumeFork is not running while a helper is looked at *)
ForkIdle ==
    /\ payload = None
    /\ apiUrl = None
    /\ pc = "idle"
    /\ pending = {}
    /\ log = <<>>
    /\ pulled = None
    /\ refresh = None
    /\ User = None
    /\ result = Running
    /\ calls = <<>>

otherThanHelpers == <<forkVars, inviteVars, cacheVars, loginVars, modalVars>>

RequestFork ==
    /\ call # None
    /\ Get(call).fn = "requestFork"
    /\ returned = None
    /\ returned' = Some(requestFork(Get(call).options, Get(call).random))
    /\ UNCHANGED <<call, otherThanHelpers>>


(* ------------------------ getConsumeForkParameters -------------------- *)

(* decodeBase64URL and the validators of sessionForkValidation *)
Base64URLAlphabet == ReplaceAll(ReplaceAll(Base64Alphabet, "+", "-"), "/", "_")

SextetOf(c) == (CHOOSE i \in DOMAIN Base64URLAlphabet : Base64URLAlphabet[i] = c) - 1

RECURSIVE DecodeSextets(_)
DecodeSextets(x) ==
    IF Len(x) < 2 THEN <<>>
    ELSE IF Len(x) = 2 THEN <<(x[1] * 4) + (x[2] \div 16)>>
    ELSE IF Len(x) = 3 THEN <<(x[1] * 4) + (x[2] \div 16), ((x[2] % 16) * 16) + (x[3] \div 4)>>
    ELSE <<(x[1] * 4) + (x[2] \div 16), ((x[2] % 16) * 16) + (x[3] \div 4),
           ((x[3] % 4) * 64) + x[4]>> \o DecodeSextets(SubSeq(x, 5, Len(x)))

decodeBase64URL(str) == DecodeSextets([i \in DOMAIN str |-> SextetOf(str[i])])

getValidatedRawKey(str) ==
    IF \A i \in DOMAIN str : \E j \in DOMAIN Base64URLAlphabet : Base64URLAlphabet[j] = str[i]
    THEN Some(decodeBase64URL(str))
    ELSE None

getValidatedForkType(str) == IF str \in ForkTypes THEN Some(str) ELSE None

(* the longest state that is kept, line 196 *)
StateMaxLength == 100

(* the parameters taken after the first '#' *)
hashParamsAfterFirstHash(hash) ==
    URLSearchParams(SliceFrom(hash, IndexOf(hash, "#") + 1))

(* lines 185-186 *)
hashParams(hash) ==
    LET sliceIndex == LastIndexOf(hash, "#") + 1
    IN  URLSearchParams(SliceFrom(hash, sliceIndex))

(* the state handed on as it came *)
stateSliceMissing(state) == state

(* line 196: state.slice(0, 100) *)
stateSlice(state) == SliceTo(state, StateMaxLength)

(* version 1 only for the literal '1' *)
versionOfLiteralOne(version) == IF version = <<"1">> THEN 1 ELSE 2

(* line 202 *)
versionOf(version) == IF version = <<"2">> THEN 2 ELSE 1

(* lines 184-204 *)
getConsumeForkParameters(hash) ==
    LET params == hashParams(hash)
        selector == OrEmpty(SearchParamsGet(params, <<"s", "e", "l", "e", "c", "t", "o", "r">>))
        state == OrEmpty(SearchParamsGet(params, <<"s", "t", "a", "t", "e">>))
        base64StringKey == OrEmpty(SearchParamsGet(params, <<"s", "k">>))
        type == OrEmpty(SearchParamsGet(params, <<"t">>))
        persistent == OrEmpty(SearchParamsGet(params, <<"p">>))
        trusted == OrEmpty(SearchParamsGet(params, <<"t", "r">>))
        version == OrEmpty(SearchParamsGet(params, <<"v">>))
    IN  [state      |-> stateSlice(state),
         selector   |-> selector,
         key        |-> IF Len(base64StringKey) # 0 THEN getValidatedRawKey(base64StringKey)
                        ELSE None,
         type       |-> getValidatedForkType(type),
         persistent |-> persistent = <<"1">>,
         trusted    |-> trusted = <<"1">>,
         version    |-> versionOf(version)]

(* window.location.hash: the text up to and including the last '#', then *)
(* the parameters that are present, in the order name=value&...          *)
LongText(n) == [i \in 1..n |-> Digits[(i % 10) + 1]]

Befores ==
    {<<"#">>,
     <<"#", "s", "e", "l", "e", "c", "t", "o", "r", "=", "o", "l", "d", "&", "s", "t", "a", "t", "e", "=", "o", "l", "d", "&", "s", "k", "=", "A", "A", "A", "A", "&", "t", "=", "2", "&", "p", "=", "1", "&", "t", "r", "=", "1", "&", "v", "=", "2", "#">>,
     <<"#", "/", "c", "a", "l", "l", "b", "a", "c", "k", "?", "v", "=", "2", "#">>}

FragmentParts ==
    [before   : Befores,
     selector : {None, Some(<<"s", "e", "l">>)},
     state    : {None, Some(<<>>), Some(<<"s", "t">>), Some(LongText(StateMaxLength)),
                 Some(LongText(StateMaxLength + 1)), Some(LongText(StateMaxLength + 30))},
     sk_t     : {<<None, None>>, <<Some(<<>>), Some(<<"1">>)>>, <<Some(<<"A", "A", "E", "C">>), Some(<<"9">>)>>},
     p_tr     : {<<None, None>>, <<Some(<<"1">>), Some(<<"0">>)>>, <<Some(<<"0">>), Some(<<"1">>)>>},
     v        : {None, Some(<<>>), Some(<<"1">>), Some(<<"2">>), Some(<<"3">>), Some(<<"2", "2">>)}]

RECURSIVE PresentPairs(_)
PresentPairs(pairs) ==
    IF pairs = <<>> THEN <<>>
    ELSE (IF Head(pairs)[2] = None THEN <<>>
          ELSE <<Head(pairs)[1] \o <<"=">> \o Get(Head(pairs)[2])>>) \o PresentPairs(Tail(pairs))

Fragment(parts) ==
    parts.before \o
    Join(PresentPairs(<<<<<<"s", "e", "l", "e", "c", "t", "o", "r">>, parts.selector>>, <<<<"s", "t", "a", "t", "e">>, parts.state>>,
                        <<<<"s", "k">>, parts.sk_t[1]>>, <<<<"t">>, parts.sk_t[2]>>,
                        <<<<"p">>, parts.p_tr[1]>>, <<<<"t", "r">>, parts.p_tr[2]>>,
                        <<<<"v">>, parts.v>>>>), <<"&">>)

NoFragment ==
    [before |-> <<>>, selector |-> None, state |-> None, sk_t |-> <<None, None>>,
     p_tr |-> <<None, None>>, v |-> None]

GetConsumeForkParametersCalls ==
    {[fn |-> "getConsumeForkParameters", hash |-> Fragment(parts), parts |-> parts] :
        parts \in FragmentParts \cup {NoFragment}}

GetConsumeForkParameters ==
    /\ call # None
    /\ Get(call).fn = "getConsumeForkParameters"
    /\ returned = None
    /\ returned' = Some(getConsumeForkParameters(Get(call).hash))
    /\ UNCHANGED <<call, otherThanHelpers>>

(* --------------------- getAccountForkResponsePayload ------------------ *)

(* enum AccountForkResponse, lines 147-151 *)
CONFLICT == 0
SUCCESS == 1
ERROR == 2

PASS_APP_NAME == "Proton Pass"
MAIL_APP_NAME == "Proton Mail"
getWelcomeToText(appName) == "Welcome to " \o appName

(* the error argument: undefined, an object without message, one with *)
ForkErrors == {None, Some([message |-> None]), Some([message |-> Some("")]),
               Some([message |-> Some("Network error")])}

(* the conflict text followed by the message of the error *)
getAccountForkResponsePayloadConflictWithError(type, error) ==
    LET additionalMessage ==
            IF error # None /\ Get(error).message # None THEN Get(Get(error).message) ELSE ""
    IN  [payload |->
            CASE type = CONFLICT ->
                    [title   |-> "Authentication error",
                     message |-> "It seems you are already logged in to " \o PASS_APP_NAME
                                 \o ". If you're trying to login with a different account, please logout from the extension first."
                                 \o additionalMessage]
              [] type = SUCCESS ->
                    [title   |-> getWelcomeToText(PASS_APP_NAME),
                     message |-> "More than a password manager, " \o PASS_APP_NAME
                                 \o " protects your password and your personal email address via email aliases. Powered by the same technology behind "
                                 \o MAIL_APP_NAME
                                 \o ", your data is end to end encrypted and is only accessible by you."]
              [] type = ERROR ->
                    [title   |-> "Something went wrong",
                     message |-> "Unable to sign in to " \o PASS_APP_NAME \o ". " \o additionalMessage]]

(* lines 153-182 *)
getAccountForkResponsePayload(type, error) ==
    LET additionalMessage ==
            IF error # None /\ Get(error).message # None THEN Get(Get(error).message) ELSE ""
    IN  [payload |->
            CASE type = CONFLICT ->
                    [title   |-> "Authentication error",
                     message |-> "It seems you are already logged in to " \o PASS_APP_NAME
                                 \o ". If you're trying to login with a different account, please logout from the extension first."]
              [] type = SUCCESS ->
                    [title   |-> getWelcomeToText(PASS_APP_NAME),
                     message |-> "More than a password manager, " \o PASS_APP_NAME
                                 \o " protects your password and your personal email address via email aliases. Powered by the same technology behind "
                                 \o MAIL_APP_NAME
                                 \o ", your data is end to end encrypted and is only accessible by you."]
              [] type = ERROR ->
                    [title   |-> "Something went wrong",
                     message |-> "Unable to sign in to " \o PASS_APP_NAME \o ". " \o additionalMessage]]

GetAccountForkResponsePayloadCalls ==
    {[fn |-> "getAccountForkResponsePayload", type |-> t, error |-> e] :
        t \in {CONFLICT, SUCCESS, ERROR}, e \in ForkErrors}

GetAccountForkResponsePayload ==
    /\ call # None
    /\ Get(call).fn = "getAccountForkResponsePayload"
    /\ returned = None
    /\ returned' = Some(getAccountForkResponsePayload(Get(call).type, Get(call).error))
    /\ UNCHANGED <<call, otherThanHelpers>>

(* ------------------------ getCorrectedSendInviteData ------------------ *)

INVITE_ACTION_TYPES == {"NONE", "SEND_INVITATION", "SEND_UPDATE", "CANCEL_INVITATION"}

REQUEST == "REQUEST"

getInviteVeventWithUpdatedParstats(newVevent, oldVevent, method) ==
    [newVevent |-> newVevent, oldVevent |-> oldVevent, method |-> method]

(* an optional boolean that is given and true *)
IsTrue(flag) == flag # None /\ Get(flag)

(* the SEND_UPDATE of a single edit is kept *)
getCorrectedSendInviteDataKeepsUpdate(args, env) ==
    LET correctedSaveInviteActions == env.correctedSaveInviteActions
        equivalentAttendees == [veventComponent |-> args.newVevent,
                                inviteActions |-> correctedSaveInviteActions]
        final == IF env.onEquivalentAttendees.sets = None THEN correctedSaveInviteActions
                 ELSE [correctedSaveInviteActions EXCEPT !.type = Get(env.onEquivalentAttendees.sets)]
        isSendInviteType == final.type \in {"SEND_INVITATION", "SEND_UPDATE"}
        method == IF isSendInviteType THEN Some(REQUEST) ELSE None
    IN  IF env.onEquivalentAttendees.rejects
        THEN [calls |-> <<equivalentAttendees>>,
              result |-> [kind |-> "error", error |-> "equivalent attendees"]]
        ELSE [calls |-> <<equivalentAttendees>>,
              result |-> [kind |-> "ok",
                          vevent |-> getInviteVeventWithUpdatedParstats(args.newVevent, args.oldVevent, method),
                          inviteActions |-> final,
                          isSendInviteType |-> isSendInviteType]]

(* lines 89-123 of the invitation helpers; env is what                   *)
(* getCorrectedSaveInviteActions returns and what onEquivalentAttendees  *)
(* does: it may reject, and it may change the type of the inviteActions  *)
(* object it is handed                                                   *)
getCorrectedSendInviteData(args, env) ==
    LET corrected == env.correctedSaveInviteActions
        correctedSaveInviteActions ==
            IF IsTrue(args.isCreatingSingleEdit) /\ corrected.type = "SEND_UPDATE"
            THEN [corrected EXCEPT !.type = "SEND_INVITATION"]
            ELSE corrected
        equivalentAttendees == [veventComponent |-> args.newVevent,
                                inviteActions |-> correctedSaveInviteActions]
        final == IF env.onEquivalentAttendees.sets = None THEN correctedSaveInviteActions
                 ELSE [correctedSaveInviteActions EXCEPT !.type = Get(env.onEquivalentAttendees.sets)]
        isSendInviteType == final.type \in {"SEND_INVITATION", "SEND_UPDATE"}
        method == IF isSendInviteType THEN Some(REQUEST) ELSE None
    IN  IF env.onEquivalentAttendees.rejects
        THEN [calls |-> <<equivalentAttendees>>,
              result |-> [kind |-> "error", error |-> "equivalent attendees"]]
        ELSE [calls |-> <<equivalentAttendees>>,
              result |-> [kind |-> "ok",
                          vevent |-> getInviteVeventWithUpdatedParstats(args.newVevent, args.oldVevent, method),
                          inviteActions |-> final,
                          isSendInviteType |-> isSendInviteType]]

OptionalBooleans == {None, Some(FALSE), Some(TRUE)}

GetCorrectedSendInviteDataCalls ==
    {[fn |-> "getCorrectedSendInviteData",
      args |-> [newVevent |-> "vevent-new", oldVevent |-> "vevent-old",
                inviteActions |-> [type |-> given],
                hasModifiedDateTimes |-> modified,
                isCreatingSingleEdit |-> single],
      env |-> [correctedSaveInviteActions |-> [type |-> corrected],
               onEquivalentAttendees |-> [rejects |-> rejects, sets |-> sets]]] :
        given \in {"SEND_UPDATE", "NONE"}, modified \in {None, Some(TRUE)},
        single \in OptionalBooleans, corrected \in INVITE_ACTION_TYPES,
        rejects \in BOOLEAN, sets \in {None, Some("SEND_UPDATE"), Some("NONE")}}

GetCorrectedSendInviteData ==
    /\ call # None
    /\ Get(call).fn = "getCorrectedSendInviteData"
    /\ returned = None
    /\ returned' = Some(getCorrectedSendInviteData(Get(call).args, Get(call).env))
    /\ UNCHANGED <<call, otherThanHelpers>>

(* ------------------------------ ListPagination ------------------------ *)

MaxTotal == 8

(* unique(list): the first occurrence of each element, in order *)
RECURSIVE unique(_)
unique(list) ==
    IF list = <<>> THEN <<>>
    ELSE LET init == unique(SubSeq(list, 1, Len(list) - 1))
             last == list[Len(list)]
         IN  IF \E i \in DOMAIN init : init[i] = last THEN init ELSE Append(init, last)

Max(a, b) == IF a > b THEN a ELSE b

(* the page buttons, duplicates kept *)
pagesToDisplayNotUnique(page, total) ==
    LET lastPage == total
    IN  IF page = 1 THEN <<1, page + 1, Min(page + 2, lastPage), lastPage>>
        ELSE IF page = lastPage THEN <<1, Max(1, lastPage - 2), lastPage - 1, lastPage>>
        ELSE <<1, page - 1, page, page + 1, lastPage>>

(* lines 32-52 *)
pagesToDisplay(page, total) ==
    LET lastPage == total
    IN  IF page = 1 THEN unique(<<1, page + 1, Min(page + 2, lastPage), lastPage>>)
        ELSE IF page = lastPage THEN unique(<<1, Max(1, lastPage - 2), lastPage - 1, lastPage>>)
        ELSE unique(<<1, page - 1, page, page + 1, lastPage>>)

(* lines 29-30, 63, 84 and 100: what is rendered *)
ListPagination(page, total, disabled) ==
    LET disablePrevious == page = 1
        disableNext == page = total
    IN  [pages |-> pagesToDisplay(page, total),
         previous |-> [disabled |-> IsTrue(disabled) \/ disablePrevious],
         next |-> [disabled |-> IsTrue(disabled) \/ disableNext]]

(* List renders the pagination only for more than one page *)
ListRendersPagination(total) == total > 1

ListPaginationCalls ==
    {[fn |-> "ListPagination", page |-> page, total |-> total, disabled |-> disabled] :
        page \in 1..MaxTotal, total \in 1..MaxTotal, disabled \in OptionalBooleans}

RenderListPagination ==
    /\ call # None
    /\ Get(call).fn = "ListPagination"
    /\ returned = None
    /\ returned' = Some(ListPagination(Get(call).page, Get(call).total, Get(call).disabled))
    /\ UNCHANGED <<call, otherThanHelpers>>

(* ------------------------- the helpers, one call ---------------------- *)

InitHelpers ==
    /\ ForkIdle
    /\ InviteIdle
    /\ CacheIdle
    /\ LoginIdle
    /\ ModalIdle
    /\ call \in {Some(c) : c \in RequestForkCalls \cup GetConsumeForkParametersCalls
                                  \cup GetAccountForkResponsePayloadCalls
                                  \cup GetCorrectedSendInviteDataCalls
                                  \cup ListPaginationCalls}
    /\ returned = None

NextHelpers ==
    \/ RequestFork
    \/ GetConsumeForkParameters
    \/ GetAccountForkResponsePayload
    \/ GetCorrectedSendInviteData
    \/ RenderListPagination

SpecHelpers == InitHelpers /\ [][NextHelpers]_vars

(* ====================================================================== *)
(* The calendar's invitation helpers: createIntermediateEvent and         *)
(* getUpdateInviteOperationWithIntermediateEvent.                         *)
(* ====================================================================== *)

(* omit(object, keys) *)
omit(object, keys) == [k \in DOMAIN object \ keys |-> object[k]]

getCreateSyncOperation(data) == [type |-> "CREATE", data |-> data]
getUpdateSyncOperation(data) == [type |-> "UPDATE", data |-> data]

getAddedAttendeesPublicKeysMap(args) ==
    [attendees |-> IF "attendee" \in DOMAIN args.veventComponent
                   THEN args.veventComponent.attendee ELSE {},
     sendPreferencesMap |-> args.sendPreferencesMap]

Error(message) == [name |-> "Error", message |-> message]

Attendees == {"a@x", "b@x"}

(* a vevent has an attendee property or none *)
VcalVeventComponents ==
    {[component |-> "vevent", uid |-> "uid-1"]}
        \cup {[component |-> "vevent", uid |-> "uid-1", attendee |-> as] :
                as \in (SUBSET Attendees) \ {{}}}

InviteActionsSet ==
    [type : {"SEND_INVITATION", "SEND_UPDATE"},
     sharedEventID : {None, Some("shared-0")},
     sharedSessionKey : {None}]

InviteEntries == {"createIntermediateEvent", "getUpdateInviteOperationWithIntermediateEvent"}

InviteArguments ==
    [entry : InviteEntries, inviteActions : InviteActionsSet, vevent : VcalVeventComponents,
     oldVevent : {[component |-> "vevent", uid |-> "uid-0"]},
     hasDefaultNotifications : BOOLEAN,
     calendarID : {"cal"}, addressID : {"addr"}, memberID : {"mem"}]

(* what onSendPrefsErrors may resolve with: attendees with send          *)
(* preferences errors are removed, the others are kept                   *)
CleanedVevents(vevent) ==
    IF "attendee" \in DOMAIN vevent
    THEN {[vevent EXCEPT !.attendee = as] : as \in SUBSET vevent.attendee}
    ELSE {vevent}

CalendarEvents == [ID : {"event-1"}, SharedEventID : {"shared-1", "shared-2"}]

(* Responses[0].Response of the sync response: with an Event or without *)
SyncResponses == {[Code |-> 1000, Event |-> Some(e)] : e \in CalendarEvents}
                    \cup {[Code |-> 2000, Event |-> None]}

SharedSessionKeys == {None, Some(""), Some("c2Vzc2lvbg")}

SendIcsErrors == {Error("Failed to send")}

InitInvite ==
    /\ ForkIdle
    /\ call = None
    /\ returned = None
    /\ invite \in {Some(a) : a \in InviteArguments}
    /\ invitePc = "init"
    /\ inviteLog = <<>>
    /\ cleanInviteActions = None
    /\ cleanVevent = None
    /\ intermediateEvent = None
    /\ inviteResult = Running
    /\ CacheIdle
    /\ LoginIdle
    /\ ModalIdle

otherThanInvite == <<forkVars, helperVars, cacheVars, loginVars, modalVars>>

(* line 44: onSendPrefsErrors is called with the inviteActions and vevent given *)
CreateIntermediateEvent ==
    /\ invitePc = "init"
    /\ inviteLog' = Append(inviteLog,
                           Issue("onSendPrefsErrors",
                                 [inviteActions |-> Get(invite).inviteActions,
                                  vevent |-> Get(invite).vevent]))
    /\ invitePc' = "onSendPrefsErrors"
    /\ UNCHANGED <<invite, cleanInviteActions, cleanVevent, intermediateEvent, inviteResult,
                   otherThanInvite>>

(* the create operation built from the vevent as given, attendees included *)
OnSendPrefsErrorsResolveKeepsAttendees ==
    /\ invitePc = "onSendPrefsErrors"
    /\ \E clean \in CleanedVevents(Get(invite).vevent), cleanActions \in InviteActionsSet :
        /\ cleanInviteActions' = Some(cleanActions)
        /\ cleanVevent' = Some(clean)
        /\ inviteLog' = inviteLog \o
            <<Resolve("onSendPrefsErrors",
                      [inviteActions |-> cleanActions, vevent |-> clean]),
              Issue("handleSyncActions",
                    <<[calendarID |-> Get(invite).calendarID,
                       addressID |-> Get(invite).addressID,
                       memberID |-> Get(invite).memberID,
                       operations |-> <<getCreateSyncOperation(
                            [veventComponent |-> Get(invite).vevent,
                             hasDefaultNotifications |-> Get(invite).hasDefaultNotifications])>>]>>)>>
    /\ invitePc' = "handleSyncActions"
    /\ UNCHANGED <<invite, intermediateEvent, inviteResult, otherThanInvite>>

(* lines 44-70: onSendPrefsErrors resolves, the create operation is built *)
(* and handed to handleSyncActions                                        *)
OnSendPrefsErrorsResolve ==
    /\ invitePc = "onSendPrefsErrors"
    /\ \E clean \in CleanedVevents(Get(invite).vevent), cleanActions \in InviteActionsSet :
        /\ cleanInviteActions' = Some(cleanActions)
        /\ cleanVevent' = Some(clean)
        /\ inviteLog' = inviteLog \o
            <<Resolve("onSendPrefsErrors",
                      [inviteActions |-> cleanActions, vevent |-> clean]),
              Issue("handleSyncActions",
                    <<[calendarID |-> Get(invite).calendarID,
                       addressID |-> Get(invite).addressID,
                       memberID |-> Get(invite).memberID,
                       operations |-> <<getCreateSyncOperation(
                            [veventComponent |-> omit(clean, {"attendee"}),
                             hasDefaultNotifications |-> Get(invite).hasDefaultNotifications])>>]>>)>>
    /\ invitePc' = "handleSyncActions"
    /\ UNCHANGED <<invite, intermediateEvent, inviteResult, otherThanInvite>>

OnSendPrefsErrorsReject ==
    /\ invitePc = "onSendPrefsErrors"
    /\ \E e \in SendIcsErrors :
        /\ inviteLog' = Append(inviteLog, Reject("onSendPrefsErrors", e))
        /\ inviteResult' = Throw(e)
    /\ invitePc' = "done"
    /\ UNCHANGED <<invite, cleanInviteActions, cleanVevent, intermediateEvent, otherThanInvite>>

(* lines 62-79: the Event of the response, or the throw of line 73 *)
HandleSyncActionsResolve ==
    /\ invitePc = "handleSyncActions"
    /\ \E response \in SyncResponses :
        IF response.Event = None
        THEN /\ inviteLog' = Append(inviteLog, Resolve("handleSyncActions", response))
             /\ inviteResult' = Throw(Error("Failed to generate intermediate event"))
             /\ invitePc' = "done"
             /\ UNCHANGED intermediateEvent
        ELSE /\ intermediateEvent' = response.Event
             /\ inviteLog' = inviteLog \o
                    <<Resolve("handleSyncActions", response),
                      Issue("getBase64SharedSessionKey", [calendarEvent |-> Get(response.Event)])>>
             /\ invitePc' = "getBase64SharedSessionKey"
             /\ UNCHANGED inviteResult
    /\ UNCHANGED <<invite, cleanInviteActions, cleanVevent, otherThanInvite>>

HandleSyncActionsReject ==
    /\ invitePc = "handleSyncActions"
    /\ \E e \in ApiErrors :
        /\ inviteLog' = Append(inviteLog, Reject("handleSyncActions", e))
        /\ inviteResult' = Throw(e)
    /\ invitePc' = "done"
    /\ UNCHANGED <<invite, cleanInviteActions, cleanVevent, intermediateEvent, otherThanInvite>>

(* the ID of the event taken for its SharedEventID *)
withSharedSessionOfEventID(inviteActions, event, sharedSessionKey) ==
    IF sharedSessionKey # None /\ Get(sharedSessionKey) # ""
    THEN [inviteActions EXCEPT !.sharedEventID = Some(event.ID),
                               !.sharedSessionKey = sharedSessionKey]
    ELSE inviteActions

(* lines 81-84 *)
withSharedSession(inviteActions, event, sharedSessionKey) ==
    IF sharedSessionKey # None /\ Get(sharedSessionKey) # ""
    THEN [inviteActions EXCEPT !.sharedEventID = Some(event.SharedEventID),
                               !.sharedSessionKey = sharedSessionKey]
    ELSE inviteActions

(* lines 76-86, then lines 169-182 for the update operation *)
SharedSessionKeyResolve ==
    /\ invitePc = "getBase64SharedSessionKey"
    /\ \E sharedSessionKey \in SharedSessionKeys :
        LET actions == withSharedSession(Get(cleanInviteActions), Get(intermediateEvent),
                                         sharedSessionKey)
        IN  /\ cleanInviteActions' = Some(actions)
            /\ IF Get(invite).entry = "createIntermediateEvent"
               THEN /\ inviteLog' = Append(inviteLog,
                                           Resolve("getBase64SharedSessionKey", sharedSessionKey))
                    /\ inviteResult' = Return([intermediateEvent |-> Get(intermediateEvent),
                                               vevent |-> Get(cleanVevent),
                                               inviteActions |-> actions])
                    /\ invitePc' = "done"
               ELSE /\ inviteLog' = inviteLog \o
                        <<Resolve("getBase64SharedSessionKey", sharedSessionKey),
                          Issue("sendIcs",
                                [inviteActions |-> actions,
                                 vevent |-> Get(cleanVevent),
                                 cancelVevent |-> Get(invite).oldVevent,
                                 noCheckSendPrefs |-> TRUE,
                                 calendarID |-> Get(invite).calendarID])>>
                    /\ invitePc' = "sendIcs"
                    /\ UNCHANGED inviteResult
    /\ UNCHANGED <<invite, cleanVevent, intermediateEvent, otherThanInvite>>

SharedSessionKeyReject ==
    /\ invitePc = "getBase64SharedSessionKey"
    /\ \E e \in CryptoErrors :
        /\ inviteLog' = Append(inviteLog, Reject("getBase64SharedSessionKey", e))
        /\ inviteResult' = Throw(e)
    /\ invitePc' = "done"
    /\ UNCHANGED <<invite, cleanInviteActions, cleanVevent, intermediateEvent, otherThanInvite>>

(* lines 169-196: sendIcs resolves and the update operation is returned *)
SendIcsResolve ==
    /\ invitePc = "sendIcs"
    /\ \E finalVevent \in CleanedVevents(Get(cleanVevent)) :
        LET sent == [veventComponent |-> finalVevent,
                     inviteActions |-> Get(cleanInviteActions),
                     sendPreferencesMap |-> "prefs"]
        IN  /\ inviteLog' = Append(inviteLog, Resolve("sendIcs", sent))
            /\ inviteResult' = Return(getUpdateSyncOperation(
                    [veventComponent |-> finalVevent,
                     calendarEvent |-> Get(intermediateEvent),
                     hasDefaultNotifications |-> Get(invite).hasDefaultNotifications,
                     isAttendee |-> FALSE,
                     addedAttendeesPublicKeysMap |-> getAddedAttendeesPublicKeysMap(sent)]))
    /\ invitePc' = "done"
    /\ UNCHANGED <<invite, cleanInviteActions, cleanVevent, intermediateEvent, otherThanInvite>>

SendIcsReject ==
    /\ invitePc = "sendIcs"
    /\ \E e \in SendIcsErrors :
        /\ inviteLog' = Append(inviteLog, Reject("sendIcs", e))
        /\ inviteResult' = Throw(e)
    /\ invitePc' = "done"
    /\ UNCHANGED <<invite, cleanInviteActions, cleanVevent, intermediateEvent, otherThanInvite>>

NextInvite ==
    \/ CreateIntermediateEvent
    \/ OnSendPrefsErrorsResolve
    \/ OnSendPrefsErrorsReject
    \/ HandleSyncActionsResolve
    \/ HandleSyncActionsReject
    \/ SharedSessionKeyResolve
    \/ SharedSessionKeyReject
    \/ SendIcsResolve
    \/ SendIcsReject

SpecInvite == InitInvite /\ [][NextInvite]_vars

(* ====================================================================== *)
(* The encrypted local-cache saga: watcher and cacheWorker.               *)
(* ====================================================================== *)

CacheSalts == {<<17, 4>>, <<201, 96>>}
SessionLockTokens == {None, Some("lock-token")}

getCacheEncryptionKey(cacheSalt, token) == [salt |-> cacheSalt, sessionLockToken |-> token]

encryptData(key, data, tag) == [key |-> key, data |-> data, tag |-> tag]

(* what select() gives once the reducers have seen n cache-triggering actions *)
State(n) == [version |-> n]

(* PassCrypto.serialize() *)
workerSnapshot == [component |-> "PassCrypto"]

CacheEvent(ev, op, run, arg) == [ev |-> ev, op |-> op, run |-> run, arg |-> arg]

(* a value of local storage, with the cacheWorker run that stored it *)
Stored(run, value) == Some([by |-> run, value |-> value])

CryptoFailures == {[name |-> "OperationError"]}
StorageFailures == {[name |-> "QuotaExceededError"]}

InitCache ==
    /\ ForkIdle
    /\ call = None
    /\ returned = None
    /\ InviteIdle
    /\ LoginIdle
    /\ ModalIdle
    /\ hasSession \in BOOLEAN
    /\ sessionLockToken \in SessionLockTokens
    /\ storage \in
        {[salt |-> None, state |-> None, snapshot |-> None]}
            \cup {[salt |-> Stored(0, uint8ArrayToString(salt)),
                   state |-> Stored(0, uint8ArrayToString(
                        encryptData(getCacheEncryptionKey(salt, sessionLockToken), State(0), "Cache"))),
                   snapshot |-> Stored(0, uint8ArrayToString(
                        encryptData(getCacheEncryptionKey(salt, sessionLockToken), workerSnapshot, "Cache")))] :
                  salt \in CacheSalts}
    /\ worker = None
    /\ writes = [r \in 1..MaxRuns |-> None]
    /\ cacheLog = <<>>
    /\ runs = 0
    /\ watcher = "running"

otherThanCache == <<forkVars, helperVars, inviteVars, loginVars, modalVars>>

cacheWorker(run) ==
    [run |-> run, pc |-> "wait", sessionLockToken |-> None, cacheSalt |-> None, key |-> None,
     encryptedData |-> None, encryptedWorkerSnapshot |-> None]

(* an action arriving while a worker is active is dropped, as takeLeading does *)
CacheTriggeringActionKeepsWorker ==
    /\ watcher = "running"
    /\ runs < MaxRuns
    /\ runs' = runs + 1
    /\ IF worker = None
       THEN /\ worker' = Some(cacheWorker(runs + 1))
            /\ cacheLog' = Append(cacheLog, CacheEvent("fork", "cacheWorker", runs + 1, None))
       ELSE /\ worker' = worker
            /\ cacheLog' = Append(cacheLog, CacheEvent("drop", "cacheWorker", runs + 1, None))
    /\ UNCHANGED <<hasSession, sessionLockToken, storage, writes, watcher, otherThanCache>>

(* lines 58-60: takeLatest cancels the task of the previous action, if it *)
(* is still there, and forks cacheWorker for this one; line 21            *)
CacheTriggeringAction ==
    /\ watcher = "running"
    /\ runs < MaxRuns
    /\ runs' = runs + 1
    /\ worker' = Some(cacheWorker(runs + 1))
    /\ cacheLog' = cacheLog
            \o (IF worker = None THEN <<>>
                ELSE <<CacheEvent("cancel", "cacheWorker", Get(worker).run, Get(worker).pc)>>)
            \o <<CacheEvent("fork", "cacheWorker", runs + 1, None)>>
    /\ UNCHANGED <<hasSession, sessionLockToken, storage, writes, watcher, otherThanCache>>

(* the session is not looked at *)
WaitElapsedWithoutSessionCheck ==
    /\ worker # None
    /\ Get(worker).pc = "wait"
    /\ \E cacheSalt \in CacheSalts :
        /\ worker' = Some([Get(worker) EXCEPT !.pc = "getCacheEncryptionKey",
                                              !.sessionLockToken = sessionLockToken,
                                              !.cacheSalt = Some(cacheSalt)])
        /\ cacheLog' = cacheLog \o
            <<CacheEvent("wake", "hasSession", Get(worker).run, hasSession),
              CacheEvent("issue", "getCacheEncryptionKey", Get(worker).run,
                         [cacheSalt |-> cacheSalt, sessionLockToken |-> sessionLockToken])>>
    /\ UNCHANGED <<hasSession, sessionLockToken, storage, writes, runs, watcher, otherThanCache>>

(* lines 21-27: the wait is over; without a session the worker ends *)
WaitElapsed ==
    /\ worker # None
    /\ Get(worker).pc = "wait"
    /\ IF hasSession
       THEN \E cacheSalt \in CacheSalts :
            /\ worker' = Some([Get(worker) EXCEPT !.pc = "getCacheEncryptionKey",
                                                  !.sessionLockToken = sessionLockToken,
                                                  !.cacheSalt = Some(cacheSalt)])
            /\ cacheLog' = cacheLog \o
                <<CacheEvent("wake", "hasSession", Get(worker).run, TRUE),
                  CacheEvent("issue", "getCacheEncryptionKey", Get(worker).run,
                             [cacheSalt |-> cacheSalt, sessionLockToken |-> sessionLockToken])>>
       ELSE /\ worker' = None
            /\ cacheLog' = Append(cacheLog, CacheEvent("wake", "hasSession", Get(worker).run, FALSE))
    /\ UNCHANGED <<hasSession, sessionLockToken, storage, writes, runs, watcher, otherThanCache>>

(* lines 27-39 *)
GetCacheEncryptionKeyResolve ==
    /\ worker # None
    /\ Get(worker).pc = "getCacheEncryptionKey"
    /\ LET key == getCacheEncryptionKey(Get(Get(worker).cacheSalt), Get(worker).sessionLockToken)
       IN  /\ worker' = Some([Get(worker) EXCEPT !.pc = "encryptData", !.key = Some(key)])
           /\ cacheLog' = cacheLog \o
                <<CacheEvent("resolve", "getCacheEncryptionKey", Get(worker).run, key),
                  CacheEvent("issue", "encryptData", Get(worker).run,
                             [key |-> key, data |-> State(runs), tag |-> "Cache"])>>
    /\ UNCHANGED <<hasSession, sessionLockToken, storage, writes, runs, watcher, otherThanCache>>

(* the error leaves cacheWorker and ends the watcher that forked it *)
GetCacheEncryptionKeyRejectPropagates ==
    /\ worker # None
    /\ Get(worker).pc = "getCacheEncryptionKey"
    /\ \E e \in CryptoFailures :
        cacheLog' = Append(cacheLog, CacheEvent("reject", "getCacheEncryptionKey", Get(worker).run, e))
    /\ worker' = None
    /\ watcher' = "aborted"
    /\ UNCHANGED <<hasSession, sessionLockToken, storage, writes, runs, otherThanCache>>

(* line 54: whatever is thrown inside the try is dropped *)
GetCacheEncryptionKeyReject ==
    /\ worker # None
    /\ Get(worker).pc = "getCacheEncryptionKey"
    /\ \E e \in CryptoFailures :
        cacheLog' = Append(cacheLog, CacheEvent("reject", "getCacheEncryptionKey", Get(worker).run, e))
    /\ worker' = None
    /\ UNCHANGED <<hasSession, sessionLockToken, storage, writes, runs, watcher, otherThanCache>>

(* lines 35-48 *)
EncryptDataResolve ==
    /\ worker # None
    /\ Get(worker).pc = "encryptData"
    /\ LET encryptedData == encryptData(Get(Get(worker).key), State(runs), "Cache")
       IN  /\ worker' = Some([Get(worker) EXCEPT !.pc = "encryptSnapshot",
                                                 !.encryptedData = Some(encryptedData)])
           /\ cacheLog' = cacheLog \o
                <<CacheEvent("resolve", "encryptData", Get(worker).run, encryptedData),
                  CacheEvent("issue", "encryptSnapshot", Get(worker).run,
                             [key |-> Get(Get(worker).key), data |-> workerSnapshot, tag |-> "Cache"])>>
    /\ UNCHANGED <<hasSession, sessionLockToken, storage, writes, runs, watcher, otherThanCache>>

EncryptDataReject ==
    /\ worker # None
    /\ Get(worker).pc = "encryptData"
    /\ \E e \in CryptoFailures :
        cacheLog' = Append(cacheLog, CacheEvent("reject", "encryptData", Get(worker).run, e))
    /\ worker' = None
    /\ UNCHANGED <<hasSession, sessionLockToken, storage, writes, runs, watcher, otherThanCache>>

(* a call of browserLocalStorage.setItem by the worker *)
SetItem(w, item, value) == [run |-> w.run, item |-> item, value |-> value]

(* lines 44-51 *)
EncryptSnapshotResolve ==
    /\ worker # None
    /\ Get(worker).pc = "encryptSnapshot"
    /\ LET encryptedWorkerSnapshot == encryptData(Get(Get(worker).key), workerSnapshot, "Cache")
           write == SetItem(Get(worker), "salt", uint8ArrayToString(Get(Get(worker).cacheSalt)))
       IN  /\ worker' = Some([Get(worker) EXCEPT !.pc = "salt",
                                                 !.encryptedWorkerSnapshot = Some(encryptedWorkerSnapshot)])
           /\ writes' = [writes EXCEPT ![write.run] = Some(write)]
           /\ cacheLog' = cacheLog \o
                <<CacheEvent("resolve", "encryptSnapshot", Get(worker).run, encryptedWorkerSnapshot),
                  CacheEvent("issue", "setItem", Get(worker).run, write)>>
    /\ UNCHANGED <<hasSession, sessionLockToken, storage, runs, watcher, otherThanCache>>

EncryptSnapshotReject ==
    /\ worker # None
    /\ Get(worker).pc = "encryptSnapshot"
    /\ \E e \in CryptoFailures :
        cacheLog' = Append(cacheLog, CacheEvent("reject", "encryptSnapshot", Get(worker).run, e))
    /\ worker' = None
    /\ UNCHANGED <<hasSession, sessionLockToken, storage, writes, runs, watcher, otherThanCache>>

(* the run whose setItem call the worker is suspended at *)
Awaited == {r \in DOMAIN writes : writes[r] # None /\ worker # None /\ r = Get(worker).run}

(* the runs cancelled while their setItem call was under way *)
Abandoned == {r \in DOMAIN writes : writes[r] # None /\ r \notin Awaited}

(* lines 51-53: the write is done and the worker goes on to the next one *)
SetItemResolve ==
    \E r \in Awaited : LET w == Get(writes[r]) IN
        /\ Get(worker).pc = w.item
        /\ storage' = [storage EXCEPT ![w.item] = Stored(w.run, w.value)]
        /\ IF w.item = "salt"
           THEN LET next == SetItem(Get(worker), "state",
                                    uint8ArrayToString(Get(Get(worker).encryptedData)))
                IN  /\ worker' = Some([Get(worker) EXCEPT !.pc = "state"])
                    /\ writes' = [writes EXCEPT ![r] = Some(next)]
                    /\ cacheLog' = cacheLog \o <<CacheEvent("resolve", "setItem", w.run, w),
                                                 CacheEvent("issue", "setItem", w.run, next)>>
           ELSE IF w.item = "state"
           THEN LET next == SetItem(Get(worker), "snapshot",
                                    uint8ArrayToString(Get(Get(worker).encryptedWorkerSnapshot)))
                IN  /\ worker' = Some([Get(worker) EXCEPT !.pc = "snapshot"])
                    /\ writes' = [writes EXCEPT ![r] = Some(next)]
                    /\ cacheLog' = cacheLog \o <<CacheEvent("resolve", "setItem", w.run, w),
                                                 CacheEvent("issue", "setItem", w.run, next)>>
           ELSE /\ worker' = None
                /\ writes' = [writes EXCEPT ![r] = None]
                /\ cacheLog' = Append(cacheLog, CacheEvent("resolve", "setItem", w.run, w))
        /\ UNCHANGED <<hasSession, sessionLockToken, runs, watcher, otherThanCache>>

(* lines 51-54: the write fails, the entry stays as it was, the worker ends *)
SetItemReject ==
    \E r \in Awaited, e \in StorageFailures : LET w == Get(writes[r]) IN
        /\ Get(worker).pc = w.item
        /\ writes' = [writes EXCEPT ![r] = None]
        /\ worker' = None
        /\ cacheLog' = Append(cacheLog, CacheEvent("reject", "setItem", w.run, [write |-> w, error |-> e]))
        /\ UNCHANGED <<hasSession, sessionLockToken, storage, runs, watcher, otherThanCache>>

(* lines 51-53 with lines 58-60: the worker was cancelled while its       *)
(* setItem call was under way; the storage completes the call all the     *)
(* same, and nothing waits for it                                         *)
AbandonedSetItemSettles ==
    \E r \in Abandoned : LET w == Get(writes[r]) IN
        /\ writes' = [writes EXCEPT ![r] = None]
        /\ \/ /\ storage' = [storage EXCEPT ![w.item] = Stored(w.run, w.value)]
              /\ cacheLog' = Append(cacheLog, CacheEvent("stored", "setItem", w.run, w))
           \/ /\ storage' = storage
              /\ cacheLog' = Append(cacheLog, CacheEvent("failed", "setItem", w.run, w))
        /\ UNCHANGED <<hasSession, sessionLockToken, worker, runs, watcher, otherThanCache>>

(* line 23: the session that authentication.hasSession() reports comes and *)
(* goes; it is read when the wait of line 21 is over and at no other time  *)
SessionChange ==
    /\ worker # None
    /\ Get(worker).pc = "wait"
    /\ hasSession' = ~hasSession
    /\ UNCHANGED <<sessionLockToken, storage, worker, writes, cacheLog, runs, watcher, otherThanCache>>

(* line 25: the session lock is set or removed; the token is read when the *)
(* wait of line 21 is over and at no other time                            *)
SessionLockChange ==
    /\ worker # None
    /\ Get(worker).pc = "wait"
    /\ \E token \in SessionLockTokens \ {sessionLockToken} : sessionLockToken' = token
    /\ UNCHANGED <<hasSession, storage, worker, writes, cacheLog, runs, watcher, otherThanCache>>

NextCache ==
    \/ CacheTriggeringAction
    \/ WaitElapsed
    \/ GetCacheEncryptionKeyResolve
    \/ GetCacheEncryptionKeyReject
    \/ EncryptDataResolve
    \/ EncryptDataReject
    \/ EncryptSnapshotResolve
    \/ EncryptSnapshotReject
    \/ SetItemResolve
    \/ SetItemReject
    \/ AbandonedSetItemSettles
    \/ SessionChange
    \/ SessionLockChange

SpecCache == InitCache /\ [][NextCache]_vars

(* ====================================================================== *)
(* The login edit form: LoginEdit.onSubmit.                               *)
(* ====================================================================== *)

MaxSubmits == 1

isEmptyString(str) == str = ""

(* value || undefined *)
OrUndefined(str) == IF str = "" THEN None ELSE Some(str)

parseOTPValue(totpUri, options) == [totpUri |-> totpUri, label |-> options.label, issuer |-> options.issuer]

uniqueId(n) == [uniqueId |-> n]

itemCreationIntent(item) == [type |-> "itemCreationIntent", payload |-> item]

(* Array.from(new Set(list)): the first occurrence of each element, in order *)
RECURSIVE Unique(_)
Unique(list) ==
    IF list = <<>> THEN <<>>
    ELSE LET init == Unique(SubSeq(list, 1, Len(list) - 1))
             last == list[Len(list)]
         IN  IF \E i \in DOMAIN init : init[i] = last THEN init ELSE Append(init, last)

(* what getEpoch() may give *)
Epochs == {0, 1700000000}

(* the revision being edited: line 42-48 *)
EditedRevision ==
    [itemId |-> "item-1", shareId |-> "share-1", lastRevision |-> 3,
     name |-> "Shop", note |-> "", itemUuid |-> "uuid-1",
     username |-> "me@x", password |-> "pw", totpUri |-> "",
     urls |-> <<"https://shop.x">>,
     extraFields |-> <<[type |-> "totp", fieldName |-> "2fa", data |-> [totpUri |-> "JBSW"]],
                       [type |-> "text", fieldName |-> "pin", data |-> [content |-> "1"]]>>]

(* lines 54-68 *)
initialValues ==
    [name |-> EditedRevision.name,
     username |-> EditedRevision.username,
     password |-> EditedRevision.password,
     note |-> EditedRevision.note,
     shareId |-> EditedRevision.shareId,
     totpUri |-> EditedRevision.totpUri,
     url |-> "",
     urls |-> [i \in DOMAIN EditedRevision.urls |-> [url |-> EditedRevision.urls[i]]],
     withAlias |-> FALSE,
     aliasPrefix |-> "",
     aliasSuffix |-> None,
     mailboxes |-> <<>>,
     extraFields |-> EditedRevision.extraFields]

(* what the fields of the form may be set to *)
LoginFieldValues ==
    [name |-> {"", "Shop"},
     username |-> {"", "me@x"},
     url |-> {"", "https://shop.x", "https://pay.x"},
     withAlias |-> BOOLEAN,
     aliasPrefix |-> {"", "shop"},
     aliasSuffix |-> {None, Some([signature |-> "sig-1", value |-> ".abc@alias.x"])},
     mailboxes |-> {<<>>, <<[id |-> 1, email |-> "me@x"]>>,
                    <<[id |-> 1, email |-> "me@x"], [id |-> 2, email |-> "me@y"]>>}]

InitLogin ==
    /\ ForkIdle
    /\ call = None
    /\ returned = None
    /\ InviteIdle
    /\ CacheIdle
    /\ ModalIdle
    /\ loginValues = Some(initialValues)
    /\ loginLog = <<>>

otherThanLogin == <<forkVars, helperVars, inviteVars, cacheVars, modalVars>>

(* a call the form makes; values and mutationTime are kept to tell which *)
(* submission made it                                                    *)
LoginEvent(ev, arg, values, mutationTime) ==
    [ev |-> ev, arg |-> arg, values |-> values, mutationTime |-> mutationTime]

Submissions == {i \in DOMAIN loginLog : loginLog[i].ev = "onSubmit"}

(* formik setFieldValue before the form is submitted *)
LoginEditChange ==
    /\ loginValues # None
    /\ Cardinality(Submissions) < MaxSubmits
    /\ \E field \in DOMAIN LoginFieldValues :
        \E value \in LoginFieldValues[field] :
            /\ value # Get(loginValues)[field]
            /\ loginValues' = Some([Get(loginValues) EXCEPT ![field] = value])
    /\ UNCHANGED <<loginLog, otherThanLogin>>

(* an alias is created whenever withAlias is ticked, whatever the mailboxes *)
withAliasIgnoringMailboxes(values) ==
    /\ "withAlias" \in DOMAIN values
    /\ values.withAlias
    /\ values.aliasSuffix # None
    /\ ~isEmptyString(values.aliasPrefix)

(* lines 76-81 *)
withAlias(values) ==
    /\ "withAlias" \in DOMAIN values
    /\ values.withAlias
    /\ values.aliasSuffix # None
    /\ ~isEmptyString(values.aliasPrefix)
    /\ Len(values.mailboxes) > 0

(* lines 88-108 *)
AliasIntent(values, mutationTime, aliasOptimisticId) ==
    itemCreationIntent(
        [type |-> "alias",
         optimisticId |-> aliasOptimisticId,
         shareId |-> EditedRevision.shareId,
         createTime |-> mutationTime - 1,
         metadata |-> [name |-> "Alias for " \o values.name, note |-> "", itemUuid |-> aliasOptimisticId],
         content |-> <<>>,
         extraData |-> [mailboxes |-> values.mailboxes,
                        prefix |-> values.aliasPrefix,
                        signedSuffix |-> Get(values.aliasSuffix).signature,
                        aliasEmail |-> values.username],
         extraFields |-> <<>>])

(* lines 111-137 *)
LoginItem(values) ==
    LET options == [label |-> OrUndefined(values.username), issuer |-> OrUndefined(values.name)]
    IN  [type |-> "login",
         itemId |-> EditedRevision.itemId,
         shareId |-> EditedRevision.shareId,
         lastRevision |-> EditedRevision.lastRevision,
         metadata |-> [name |-> values.name, note |-> values.note, itemUuid |-> EditedRevision.itemUuid],
         content |-> [username |-> values.username,
                      password |-> values.password,
                      urls |-> Unique([i \in DOMAIN values.urls |-> values.urls[i].url]
                                        \o (IF isEmptyString(values.url) THEN <<>> ELSE <<values.url>>)),
                      totpUri |-> parseOTPValue(values.totpUri, options)],
         extraFields |-> [i \in DOMAIN values.extraFields |->
                            IF values.extraFields[i].type = "totp"
                            THEN [type |-> "totp",
                                  fieldName |-> values.extraFields[i].fieldName,
                                  data |-> values.extraFields[i].data,
                                  value |-> parseOTPValue(values.extraFields[i].data.totpUri, options)]
                            ELSE values.extraFields[i]]]

(* lines 74-139 *)
LoginEditSubmit ==
    /\ loginValues # None
    /\ Cardinality(Submissions) < MaxSubmits
    /\ \E mutationTime \in Epochs :
        LET values == Get(loginValues)
            aliasOptimisticId == uniqueId(Cardinality(Submissions) + 1)
        IN  loginLog' = loginLog
                \o (IF withAlias(values)
                    THEN <<LoginEvent("dispatch", AliasIntent(values, mutationTime, aliasOptimisticId),
                                      values, mutationTime)>>
                    ELSE <<>>)
                \o <<LoginEvent("onSubmit", LoginItem(values), values, mutationTime)>>
    /\ UNCHANGED <<loginValues, otherThanLogin>>

NextLogin ==
    \/ LoginEditChange
    \/ LoginEditSubmit

SpecLogin == InitLogin /\ [][NextLogin]_vars

(* ====================================================================== *)
(* The composer's password modal: ComposerPasswordModal.                  *)
(* ====================================================================== *)

MaxOpens == 2
MaxAttempts == 1

FLAG_INTERNAL == 4

hasBit(number, mask) == (number \div mask) % 2 = 1

(* number | mask and number & ~mask for a mask of one bit; number = 0 by default *)
setBit(number, mask) ==
    LET n == IF number = None THEN 0 ELSE Get(number)
    IN  IF hasBit(n, mask) THEN n ELSE n + mask

clearBit(number, mask) ==
    LET n == IF number = None THEN 0 ELSE Get(number)
    IN  IF hasBit(n, mask) THEN n - mask ELSE n

Passwords == {"", "secret", "other"}
PasswordHints == {"", "hint"}

(* the messages the composer may hold when the modal is first opened: a  *)
(* Password comes only from this modal, hence with FLAG_INTERNAL         *)
ComposerMessages ==
    {[data |-> [Flags |-> f, Password |-> None, PasswordHint |-> None]] :
        f \in {None, Some(1), Some(FLAG_INTERNAL)}}
        \cup {[data |-> [Flags |-> Some(FLAG_INTERNAL + 1), Password |-> Some("secret"),
                         PasswordHint |-> h]] : h \in {Some(""), Some("hint")}}

(* onChange(update, true): the data that update gives is merged into the message *)
onChange(messageOf, message) ==
    [message EXCEPT !.data = [k \in DOMAIN message.data |->
                                IF k \in DOMAIN messageOf THEN messageOf[k] ELSE message.data[k]]]

InitModal ==
    /\ ForkIdle
    /\ call = None
    /\ returned = None
    /\ InviteIdle
    /\ CacheIdle
    /\ LoginIdle
    /\ composerMessage \in {Some(msg) : msg \in ComposerMessages}
    /\ modal = None
    /\ modalLog = <<>>
    /\ opens = 0

otherThanModal == <<forkVars, helperVars, inviteVars, cacheVars, loginVars>>

(* a call made by the modal: which handler run made it, the fields of    *)
(* the modal then, and the message after it                              *)
ModalEvent(ev, handler, fields, message) ==
    [ev |-> ev, handler |-> handler, fields |-> fields, message |-> message]

(* the handler runs so far *)
Handled == IF modalLog = <<>> THEN 0 ELSE modalLog[Len(modalLog)].handler

(* value || '' *)
OrEmptyString(value) == IF value = None THEN "" ELSE Get(value)

(* lines 17-21: the modal is shown and takes its fields from the message *)
OpenModal ==
    /\ modal = None
    /\ opens < MaxOpens
    /\ opens' = opens + 1
    /\ LET message == Get(composerMessage).data
           fields == [password |-> OrEmptyString(message.Password),
                      passwordVerif |-> OrEmptyString(message.Password),
                      passwordHint |-> OrEmptyString(message.PasswordHint)]
       IN  /\ modal' = Some(fields)
           /\ modalLog' = Append(modalLog, ModalEvent("open", Handled + 1, fields, Get(composerMessage)))
    /\ UNCHANGED <<composerMessage, otherThanModal>>

(* lines 24-26 with lines 89, 103 and 116 *)
HandleChange ==
    /\ modal # None
    /\ \/ \E value \in Passwords \ {Get(modal).password} :
            modal' = Some([Get(modal) EXCEPT !.password = value])
       \/ \E value \in Passwords \ {Get(modal).passwordVerif} :
            modal' = Some([Get(modal) EXCEPT !.passwordVerif = value])
       \/ \E value \in PasswordHints \ {Get(modal).passwordHint} :
            modal' = Some([Get(modal) EXCEPT !.passwordHint = value])
    /\ UNCHANGED <<composerMessage, modalLog, opens, otherThanModal>>

(* lines 28-47 *)
HandleSubmit ==
    /\ modal # None
    /\ IF Get(modal).password # Get(modal).passwordVerif
       THEN /\ Len(SelectSeq(modalLog, LAMBDA e : e.ev = "createNotification")) < MaxAttempts
            /\ modalLog' = Append(modalLog,
                    ModalEvent("createNotification", Handled + 1, Get(modal), Get(composerMessage)))
            /\ UNCHANGED <<composerMessage, modal>>
       ELSE LET changed == onChange([Flags |-> Some(setBit(Get(composerMessage).data.Flags, FLAG_INTERNAL)),
                                     Password |-> Some(Get(modal).password),
                                     PasswordHint |-> Some(Get(modal).passwordHint)],
                                    Get(composerMessage))
            IN  /\ composerMessage' = Some(changed)
                /\ modalLog' = modalLog \o
                        <<ModalEvent("onChange", Handled + 1, Get(modal), changed),
                          ModalEvent("onClose", Handled + 1, Get(modal), changed)>>
                /\ modal' = None
    /\ UNCHANGED <<opens, otherThanModal>>

(* cancelling takes the flag away and leaves the Password *)
HandleCancelKeepsPassword ==
    /\ modal # None
    /\ LET changed == onChange([Flags |-> Some(clearBit(Get(composerMessage).data.Flags, FLAG_INTERNAL))],
                               Get(composerMessage))
       IN  /\ composerMessage' = Some(changed)
           /\ modalLog' = modalLog \o
                <<ModalEvent("onChange", Handled + 1, Get(modal), changed),
                  ModalEvent("onClose", Handled + 1, Get(modal), changed)>>
    /\ modal' = None
    /\ UNCHANGED <<opens, otherThanModal>>

(* lines 49-61 *)
HandleCancel ==
    /\ modal # None
    /\ LET changed == onChange([Flags |-> Some(clearBit(Get(composerMessage).data.Flags, FLAG_INTERNAL)),
                                Password |-> None,
                                PasswordHint |-> None],
                               Get(composerMessage))
       IN  /\ composerMessage' = Some(changed)
           /\ modalLog' = modalLog \o
                <<ModalEvent("onChange", Handled + 1, Get(modal), changed),
                  ModalEvent("onClose", Handled + 1, Get(modal), changed)>>
    /\ modal' = None
    /\ UNCHANGED <<opens, otherThanModal>>

NextModal ==
    \/ OpenModal
    \/ HandleChange
    \/ HandleSubmit
    \/ HandleCancel

SpecModal == InitModal /\ [][NextModal]_vars

(* ------------------------- reading the history of consumeFork --------- *)

ApiOps == {"pullForkSession", "setRefreshCookies", "getUser"}
CryptoOps == {"getKey", "getForkDecryptedBlob"}

At(ev, op) == {i \in DOMAIN log : log[i].ev = ev /\ log[i].op = op}
Happened(ev, op) == At(ev, op) # {}
ArgOf(ev, op) == log[CHOOSE i \in At(ev, op) : TRUE].arg

InvalidForkState == Throw(InvalidForkConsumeError("Invalid fork state"))
FailedToDecrypt == Throw(InvalidForkConsumeError("Failed to decrypt fork payload"))

(* the gate in the words of the specification *)
GateAsSpecified(p) ==
    /\ p.selector # ""
    /\ p.state # ""
    /\ (p.mode = "secure" \/ (p.localState # None /\ p.key # None))

Rejected == result = InvalidForkState /\ log = <<>>
Accepted == log # <<>> /\ log[1].ev = "issue" /\ log[1].op = "pullForkSession"

(* C1: a payload that fails the gate makes consumeFork throw             *)
(* InvalidForkConsumeError('Invalid fork state') with no pull-fork,      *)
(* refresh or get-user request issued through api.                       *)
C1_RejectedBeforeAnyNetworkCall ==
    (pc # "init" /\ ~GateAsSpecified(payload)) =>
        /\ pc = "done"
        /\ result = InvalidForkState
        /\ \A i \in DOMAIN log : ~(log[i].ev = "issue" /\ log[i].op \in ApiOps)
        /\ pending = {}

C1_Witness ==
    /\ pc = "done"
    /\ ~GateAsSpecified(payload)
    /\ payload.selector = ""
    /\ result = InvalidForkState

(* C2: the gate accepts exactly the payloads with non-empty selector and *)
(* state that are secure or carry a non-null localState and a raw key;   *)
(* an sso payload with localState = null is always rejected.             *)
C2_GateAcceptsExactly ==
    pc # "init" =>
        /\ GateAsSpecified(payload) => (Accepted /\ result # InvalidForkState)
        /\ ~GateAsSpecified(payload) => Rejected
        /\ (payload.mode = "sso" /\ payload.localState = None) => Rejected

C2_Witness ==
    /\ pc = "done"
    /\ payload.mode = "sso"
    /\ payload.localState = None
    /\ payload.key # None
    /\ payload.selector # ""
    /\ payload.state # ""
    /\ Rejected

(* C3: when getKey or getForkDecryptedBlob throws, the caller observes   *)
(* exactly InvalidForkConsumeError('Failed to decrypt fork payload') and *)
(* never the error that was thrown.                                      *)
C3_DecryptionErrorsAreNormalized ==
    \A i \in DOMAIN log :
        (log[i].ev = "reject" /\ log[i].op \in CryptoOps) =>
            /\ pc = "done"
            /\ result = FailedToDecrypt
            /\ result.error # log[i].arg

C3_Witness ==
    /\ pc = "done"
    /\ Happened("reject", "getForkDecryptedBlob")
    /\ ArgOf("reject", "getForkDecryptedBlob").name = "OperationError"
    /\ result = FailedToDecrypt

(* C4: a secure payload with non-empty selector and state never reaches  *)
(* getKey or getForkDecryptedBlob, and the session returned carries      *)
(* payload.keyPassword as supplied.                                      *)
C4_SecureSkipsDecryption ==
    (payload.mode = "secure" /\ payload.selector # "" /\ payload.state # "") =>
        /\ \A i \in DOMAIN log : log[i].op \notin CryptoOps
        /\ pending \cap CryptoOps = {}
        /\ result # FailedToDecrypt
        /\ result.kind = "ok" => result.session.keyPassword = payload.keyPassword

C4_Witness ==
    /\ payload.mode = "secure"
    /\ payload.keyPassword = "pw"
    /\ pc = "done"
    /\ result.kind = "ok"
    /\ result.session.keyPassword = "pw"

(* C5: the steps run one after the other: at most one operation is in    *)
(* flight, refresh is issued after pull-fork resolved and with its UID   *)
(* and RefreshToken, get-user after refresh resolved and with that UID   *)
(* and the refreshed AccessToken, key derivation after get-user resolved.*)
IssuedAfterResolved(op, prev) ==
    \A i \in At("issue", op) : \E j \in At("resolve", prev) : j < i

C5_StepsAreSequential ==
    /\ Cardinality(pending) <= 1
    /\ IssuedAfterResolved("setRefreshCookies", "pullForkSession")
    /\ IssuedAfterResolved("getUser", "setRefreshCookies")
    /\ IssuedAfterResolved("getKey", "getUser")
    /\ IssuedAfterResolved("getForkDecryptedBlob", "getKey")
    /\ result.kind = "ok" => Happened("resolve", "getUser")
    /\ \A i \in At("issue", "setRefreshCookies") :
        /\ log[i].arg.UID = ArgOf("resolve", "pullForkSession").UID
        /\ log[i].arg.config.RefreshToken = ArgOf("resolve", "pullForkSession").RefreshToken
    /\ \A i \in At("issue", "getUser") :
        /\ log[i].arg.UID = ArgOf("resolve", "pullForkSession").UID
        /\ log[i].arg.AccessToken = ArgOf("resolve", "setRefreshCookies").AccessToken

C5_Witness ==
    /\ pc = "done"
    /\ payload.mode = "sso"
    /\ result.kind = "ok"
    /\ Len(log) = 10
    /\ ArgOf("issue", "getUser").UID = "u2"

(* C6: a failure of pull-fork, refresh or get-user reaches the caller as *)
(* the very error the api call failed with, nothing is issued after it,  *)
(* and no operation is issued twice.                                     *)
C6_NetworkFailuresPropagateVerbatim ==
    /\ \A i \in DOMAIN log :
        (log[i].ev = "reject" /\ log[i].op \in ApiOps) =>
            /\ result = Throw(log[i].arg)
            /\ result.error.name # "InvalidForkConsumeError"
            /\ i = Len(log)
            /\ pc = "done"
            /\ pending = {}
    /\ \A op \in ApiOps \cup CryptoOps : Cardinality(At("issue", op)) <= 1

C6_Witness ==
    /\ pc = "done"
    /\ Happened("reject", "setRefreshCookies")
    /\ ~Happened("issue", "getUser")
    /\ result = Throw(ArgOf("reject", "setRefreshCookies"))

(* C7: a session is returned only when pull-fork, refresh and get-user   *)
(* all resolved (and, in sso mode, the blob was decrypted); every other  *)
(* finished call hands the caller an error and nothing of a session.     *)
SessionFields == {"AccessToken", "keyPassword", "LocalID", "RefreshToken", "UID", "UserID"}

C7_SessionOnlyAfterAllSucceed ==
    /\ pc # "done" => result = Running
    /\ pc = "done" => result.kind \in {"ok", "error"}
    /\ result.kind = "ok" =>
        /\ \A op \in ApiOps : Happened("resolve", op)
        /\ \A i \in DOMAIN log : log[i].ev # "reject"
        /\ payload.mode = "sso" => Happened("resolve", "getForkDecryptedBlob")
        /\ DOMAIN result.session = SessionFields
        /\ result.session.UserID = ArgOf("resolve", "getUser").ID
    /\ result.kind = "error" => DOMAIN result = {"kind", "error"}
    /\ (\E i \in DOMAIN log : log[i].ev = "reject") => result.kind = "error"

C7_Witness ==
    /\ pc = "done"
    /\ result.kind = "error"
    /\ Happened("reject", "getUser")
    /\ pulled # None
    /\ refresh # None

(* C8: the RefreshToken of pull-fork goes into the one refresh request   *)
(* and nowhere else; the session carries the RefreshToken that the       *)
(* refresh call returned.                                                *)
C8_PulledRefreshTokenUsedOnce ==
    /\ Cardinality(At("issue", "setRefreshCookies")) <= 1
    /\ \A i \in At("issue", "setRefreshCookies") :
        log[i].arg = withUIDHeaders(Get(pulled).UID, refreshTokens(Get(pulled).RefreshToken))
    /\ \A i \in At("issue", "getUser") :
        /\ log[i].arg.config = getUser
        /\ log[i].arg.AccessToken = ArgOf("resolve", "setRefreshCookies").AccessToken
    /\ result.kind = "ok" =>
        /\ result.session.RefreshToken = ArgOf("resolve", "setRefreshCookies").RefreshToken
        /\ ArgOf("resolve", "setRefreshCookies").RefreshToken
                # ArgOf("resolve", "pullForkSession").RefreshToken
            => result.session.RefreshToken # ArgOf("resolve", "pullForkSession").RefreshToken

C8_Witness ==
    /\ pc = "done"
    /\ result.kind = "ok"
    /\ Get(pulled).RefreshToken = "r1"
    /\ result.session.RefreshToken = "r2"

(* C9: the session returned is {AccessToken and RefreshToken of refresh, *)
(* LocalID and UID of pull-fork, UserID = User.ID, keyPassword}; in sso  *)
(* mode keyPassword is that of the decrypted blob, '' when it has none.  *)
ExpectedKeyPassword ==
    IF payload.mode = "secure"
    THEN payload.keyPassword
    ELSE LET blob == ArgOf("resolve", "getForkDecryptedBlob")
         IN  IF blob = None THEN ""
             ELSE IF Get(blob).keyPassword = None THEN ""
             ELSE Get(Get(blob).keyPassword)

C9_SessionIsExactly ==
    result.kind = "ok" =>
        result.session =
            [AccessToken  |-> ArgOf("resolve", "setRefreshCookies").AccessToken,
             keyPassword  |-> ExpectedKeyPassword,
             LocalID      |-> ArgOf("resolve", "pullForkSession").LocalID,
             RefreshToken |-> ArgOf("resolve", "setRefreshCookies").RefreshToken,
             UID          |-> ArgOf("resolve", "pullForkSession").UID,
             UserID       |-> ArgOf("resolve", "getUser").ID]

C9_Witness ==
    /\ payload.mode = "sso"
    /\ result = Return([AccessToken |-> "a2", keyPassword |-> "pw", LocalID |-> 3,
                        RefreshToken |-> "r2", UID |-> "u1", UserID |-> "user-9"])

(* C10: in sso mode the outcome of the gate and the pull-fork request do *)
(* not change when localState is replaced by any other non-null value,   *)
(* equal to state or not.                                                *)
C10_StateEqualityNeverChecked ==
    (pc # "init" /\ payload.mode = "sso" /\ payload.localState # None) =>
        \A ls \in LocalStates \ {None} :
            LET twin == [payload EXCEPT !.localState = ls]
            IN  /\ validFork(twin) <=> Accepted
                /\ ~validFork(twin) <=> Rejected
                /\ Accepted => log[1].arg = pullForkParams(twin, apiUrl)

C10_Witness ==
    /\ payload.mode = "sso"
    /\ payload.state = "st"
    /\ payload.localState = Some("st2")
    /\ pc = "done"
    /\ result.kind = "ok"

C12_NoRecordOfConsumedSelectors ==
    /\ \A i \in DOMAIN calls : calls[i].accepted <=> GateAsSpecified(payload)
    /\ (calls # <<>> /\ pc # "init" /\ GateAsSpecified(payload)) =>
        /\ Accepted
        /\ log[1].arg = pullForkParams(payload, apiUrl)
        /\ result # InvalidForkState

C12_Witness ==
    /\ calls # <<>>
    /\ calls[1] = [accepted |-> TRUE, kind |-> "ok"]
    /\ pc = "pullFork"
    /\ Accepted
    /\ pending = {"pullForkSession"}

(* C13 as stated: whenever apiUrl is given the pull-fork request goes to *)
(* apiUrl + '/' + the default path.                                      *)
C13_GivenApiUrlIsPrefixed ==
    Accepted =>
        log[1].arg.url = IF apiUrl # None
                         THEN Get(apiUrl) \o "/" \o pullForkSession(payload.selector).url
                         ELSE pullForkSession(payload.selector).url

(* C13 amended: a non-empty apiUrl is prefixed, with a '/', to the       *)
(* pull-fork path; an absent or empty apiUrl leaves the default path;    *)
(* the refresh and get-user requests always keep their default URLs.     *)
C13_NonEmptyApiUrlIsPrefixed ==
    /\ Accepted =>
        log[1].arg.url = IF apiUrl # None /\ Get(apiUrl) # ""
                         THEN Get(apiUrl) \o "/" \o pullForkSession(payload.selector).url
                         ELSE pullForkSession(payload.selector).url
    /\ \A i \in At("issue", "setRefreshCookies") :
        log[i].arg.config.url = refreshTokens(Get(pulled).RefreshToken).url
    /\ \A i \in At("issue", "getUser") : log[i].arg.config.url = getUser.url

C13_Witness ==
    /\ apiUrl = Some("https://pass-api")
    /\ Happened("issue", "getUser")
    /\ ArgOf("issue", "pullForkSession").url = "https://pass-api/pull-fork/sel"
    /\ ArgOf("issue", "getUser").config.url = "get-user"

(* ----------------------- reading a helper's call ---------------------- *)

Called(fn) == call # None /\ Get(call).fn = fn /\ returned # None

ParamNames(params) == {params[i][1] : i \in DOMAIN params}

(* C14: requestFork returns a state that decodes to the 32 random bytes  *)
(* and a url = host + authorize path + '?' + query, whose parsed query   *)
(* holds the same app and state, independent=0, u=<localID> exactly when *)
(* localID is given (0 included) and t=<type> exactly when type is given.*)
C14_RequestForkRoundTrips ==
    Called("requestFork") =>
        LET o == Get(call).options
            r == Get(returned)
            prefix == (IF o.host = None THEN DefaultHost ELSE Get(o.host)) \o AUTHORIZE \o <<"?">>
            q == URLSearchParams(SubSeq(r.url, Len(prefix) + 1, Len(r.url)))
            u == CASE o.localID = None -> None
                   [] o.localID = Some(0) -> Some(<<"0">>)
                   [] o.localID = Some(1) -> Some(<<"1">>)
                   [] o.localID = Some(12) -> Some(<<"1", "2">>)
        IN  /\ Len(decodeBase64URL(r.state)) = 32
            /\ decodeBase64URL(r.state) = Get(call).random
            /\ \A i \in DOMAIN r.state : r.state[i] \notin {"+", "/", "="}
            /\ SubSeq(r.url, 1, Len(prefix)) = prefix
            /\ SearchParamsGet(q, <<"a", "p", "p">>) = Some(o.app)
            /\ SearchParamsGet(q, <<"s", "t", "a", "t", "e">>) = Some(r.state)
            /\ SearchParamsGet(q, <<"i", "n", "d", "e", "p", "e", "n", "d", "e", "n", "t">>) = Some(<<"0">>)
            /\ SearchParamsGet(q, <<"u">>) = u
            /\ SearchParamsGet(q, <<"t">>) = o.type
            /\ Len(q) = 3 + (IF o.localID = None THEN 0 ELSE 1) + (IF o.type = None THEN 0 ELSE 1)

C14_Witness ==
    /\ Called("requestFork")
    /\ Get(call).options.localID = Some(0)
    /\ Get(call).options.type = Some(<<"1">>)
    /\ Get(call).options.host = None
    /\ Get(call).random[1] = 251
    /\ <<"u">> \in ParamNames(URLSearchParams(SliceFrom(Get(returned).url,
                                                         IndexOf(Get(returned).url, "?") + 1)))

(* C15: the state returned has at most 100 characters: a longer state of *)
(* the fragment is cut to its first 100 characters, a shorter one is     *)
(* returned as it is, an absent one gives ''.                            *)
C15_StateTruncatedTo100 ==
    Called("getConsumeForkParameters") =>
        LET given == Get(call).parts.state
            out == Get(returned).state
        IN  /\ Len(out) <= 100
            /\ given = None => out = <<>>
            /\ (given # None /\ Len(Get(given)) <= 100) => out = Get(given)
            /\ (given # None /\ Len(Get(given)) > 100) => out = [i \in 1..100 |-> Get(given)[i]]

C15_Witness ==
    /\ Called("getConsumeForkParameters")
    /\ Get(call).parts.state # None
    /\ Len(Get(Get(call).parts.state)) = 130
    /\ Len(Get(returned).state) = 100

(* C16: every field returned comes from the text after the last '#' of   *)
(* the hash; the text before it, parameters included, changes nothing.   *)
C16_ParsesAfterLastHash ==
    Called("getConsumeForkParameters") =>
        LET parts == Get(call).parts
            out == Get(returned)
        IN  /\ out = getConsumeForkParameters(Fragment([parts EXCEPT !.before = <<"#">>]))
            /\ out.selector = (IF parts.selector = None THEN <<>> ELSE Get(parts.selector))
            /\ out.persistent = (parts.p_tr[1] = Some(<<"1">>))
            /\ out.trusted = (parts.p_tr[2] = Some(<<"1">>))
            /\ out.type = (IF parts.sk_t[2] = Some(<<"1">>) THEN Some(<<"1">>) ELSE None)
            /\ out.key = (IF parts.sk_t[1] = Some(<<"A", "A", "E", "C">>) THEN Some(<<0, 1, 2>>) ELSE None)
            /\ parts.state = None => out.state = <<>>
            /\ parts.v = None => out.version = 1

C16_Witness ==
    /\ Called("getConsumeForkParameters")
    /\ Len(Get(call).parts.before) > 1
    /\ IndexOf(Get(call).parts.before, "=") # -1
    /\ Get(call).parts.selector = Some(<<"s", "e", "l">>)
    /\ Get(call).parts.v = None
    /\ Get(returned).selector = <<"s", "e", "l">>
    /\ Get(returned).version = 1
    /\ ~Get(returned).persistent

(* C17: version is 1 or 2, and 2 exactly when the parameter v of the     *)
(* fragment is the literal '2'.                                          *)
C17_VersionIsOneOrTwo ==
    Called("getConsumeForkParameters") =>
        /\ Get(returned).version \in {1, 2}
        /\ Get(returned).version = 2 <=> Get(call).parts.v = Some(<<"2">>)

C17_Witness ==
    /\ Called("getConsumeForkParameters")
    /\ Get(call).parts.v = Some(<<"3">>)
    /\ Get(returned).version = 1

(* C18: each of CONFLICT, SUCCESS and ERROR gives a payload with a title *)
(* and a message, and the payload of CONFLICT is the same whatever error *)
(* is passed.                                                            *)
C18_ConflictPayloadIgnoresError ==
    Called("getAccountForkResponsePayload") =>
        LET out == Get(returned).payload
        IN  /\ DOMAIN out = {"title", "message"}
            /\ out.title # ""
            /\ out.message # ""
            /\ Get(call).type = CONFLICT =>
                out = [title   |-> "Authentication error",
                       message |-> "It seems you are already logged in to Proton Pass. If you're trying to login with a different account, please logout from the extension first."]

C18_Witness ==
    /\ Called("getAccountForkResponsePayload")
    /\ Get(call).type = CONFLICT
    /\ Get(call).error = Some([message |-> Some("Network error")])
    /\ Get(returned).payload.title = "Authentication error"

(* ------------------- reading the history of the invitation helpers ---- *)

InviteAt(ev, op) == {i \in DOMAIN inviteLog : inviteLog[i].ev = ev /\ inviteLog[i].op = op}

FailedToGenerate == Throw(Error("Failed to generate intermediate event"))

(* C19: onSendPrefsErrors is called before handleSyncActions;             *)
(* handleSyncActions receives one sync action with a single create        *)
(* operation, built from the vevent that onSendPrefsErrors returned with  *)
(* its attendee property removed; and when the sync response carries no   *)
(* Event the helper throws 'Failed to generate intermediate event' and    *)
(* calls nothing more.                                                    *)
C19_IntermediateEventSavedWithoutAttendees ==
    /\ \A i \in InviteAt("issue", "handleSyncActions") :
        /\ \E j \in InviteAt("issue", "onSendPrefsErrors") : j < i
        /\ \E j \in InviteAt("resolve", "onSendPrefsErrors") :
            /\ j < i
            /\ Len(inviteLog[i].arg) = 1
            /\ Len(inviteLog[i].arg[1].operations) = 1
            /\ LET operation == inviteLog[i].arg[1].operations[1]
                   cleaned == inviteLog[j].arg.vevent
               IN  /\ operation.type = "CREATE"
                   /\ "attendee" \notin DOMAIN operation.data.veventComponent
                   /\ DOMAIN operation.data.veventComponent = DOMAIN cleaned \ {"attendee"}
                   /\ \A k \in DOMAIN operation.data.veventComponent :
                        operation.data.veventComponent[k] = cleaned[k]
    /\ \A i \in InviteAt("resolve", "handleSyncActions") :
        inviteLog[i].arg.Event = None =>
            /\ inviteResult = FailedToGenerate
            /\ i = Len(inviteLog)
    /\ inviteResult = FailedToGenerate =>
        \E i \in InviteAt("resolve", "handleSyncActions") : inviteLog[i].arg.Event = None

C19_Witness ==
    /\ invite # None
    /\ "attendee" \in DOMAIN Get(invite).vevent
    /\ Get(invite).vevent.attendee = Attendees
    /\ \E j \in InviteAt("resolve", "onSendPrefsErrors") :
        inviteLog[j].arg.vevent.attendee = {"a@x"}
    /\ \E i \in InviteAt("resolve", "handleSyncActions") : inviteLog[i].arg.Event = None
    /\ inviteResult = FailedToGenerate

(* the settlings of handleSyncActions before position i that gave an Event *)
CreatedBefore(i) ==
    {j \in InviteAt("resolve", "handleSyncActions") : j < i /\ inviteLog[j].arg.Event # None}

KeyBefore(i) == {j \in InviteAt("resolve", "getBase64SharedSessionKey") : j < i}

(* C20 as stated: sendIcs is called only after handleSyncActions gave the *)
(* intermediate event, and the inviteActions passed to sendIcs always     *)
(* carry the SharedEventID of that event.                                 *)
C20_SendIcsAlwaysCarriesSharedEventID ==
    \A i \in InviteAt("issue", "sendIcs") :
        /\ CreatedBefore(i) # {}
        /\ \A j \in CreatedBefore(i) :
            inviteLog[i].arg.inviteActions.sharedEventID
                = Some(Get(inviteLog[j].arg.Event).SharedEventID)

(* C20: sendIcs is called only after handleSyncActions gave the           *)
(* intermediate event and getBase64SharedSessionKey settled; the          *)
(* inviteActions passed to sendIcs carry the SharedEventID of that event  *)
(* and the shared session key when getBase64SharedSessionKey returned a   *)
(* non-empty key, and are the inviteActions that onSendPrefsErrors        *)
(* returned, unchanged, when it returned none.                            *)
C20_SendIcsCarriesSharedEventIDWithKey ==
    \A i \in InviteAt("issue", "sendIcs") :
        /\ Get(invite).entry = "getUpdateInviteOperationWithIntermediateEvent"
        /\ CreatedBefore(i) # {}
        /\ KeyBefore(i) # {}
        /\ \A j \in CreatedBefore(i) : \A k \in KeyBefore(i) :
            /\ j < k
            /\ LET key == inviteLog[k].arg
                   sent == inviteLog[i].arg.inviteActions
                   kept == inviteLog[CHOOSE c \in InviteAt("resolve", "onSendPrefsErrors") : TRUE].arg.inviteActions
               IN  IF key # None /\ Get(key) # ""
                   THEN /\ sent.sharedEventID = Some(Get(inviteLog[j].arg.Event).SharedEventID)
                        /\ sent.sharedSessionKey = key
                        /\ sent.type = kept.type
                   ELSE sent = kept

C20_Witness ==
    /\ \E i \in InviteAt("issue", "sendIcs") :
        /\ inviteLog[i].arg.inviteActions.sharedEventID = Some("shared-2")
        /\ inviteLog[i].arg.inviteActions.sharedSessionKey = Some("c2Vzc2lvbg")
    /\ \E c \in InviteAt("resolve", "onSendPrefsErrors") :
        inviteLog[c].arg.inviteActions.sharedEventID = Some("shared-0")
    /\ inviteResult.kind = "ok"

(* C21: when consumeFork fails with 'Failed to decrypt fork payload', the *)
(* payload is an sso one, pull-fork, refresh and get-user have each been  *)
(* issued once and have resolved before getKey was issued, and the        *)
(* failed decryption step is the last thing consumeFork did: no call      *)
(* follows it.                                                            *)
C21_DecryptFailsAfterNetworkSteps ==
    result = FailedToDecrypt =>
        /\ payload.mode = "sso"
        /\ \A op \in ApiOps :
            /\ Cardinality(At("issue", op)) = 1
            /\ Cardinality(At("resolve", op)) = 1
            /\ \A i \in At("resolve", op) : \A j \in At("issue", "getKey") : i < j
        /\ pulled # None /\ refresh # None /\ User # None
        /\ \A i \in DOMAIN log : log[i].op \in ApiOps \cup CryptoOps
        /\ log[Len(log)].ev = "reject" /\ log[Len(log)].op \in CryptoOps
        /\ pending = {}
        /\ pc = "done"

C21_Witness ==
    /\ result = FailedToDecrypt
    /\ log[Len(log)] = Reject("getForkDecryptedBlob", [name |-> "OperationError", message |-> ""])
    /\ Happened("resolve", "setRefreshCookies")
    /\ Happened("resolve", "getKey")

(* ------------------- reading the history of the cache saga ------------ *)

CacheAt(ev, op) == {i \in DOMAIN cacheLog : cacheLog[i].ev = ev /\ cacheLog[i].op = op}

(* what a cacheWorker run itself does: its calls and what it gets back *)
ByWorker(run) ==
    {i \in DOMAIN cacheLog : cacheLog[i].run = run
                                /\ cacheLog[i].ev \in {"wake", "issue", "resolve", "reject"}}

SetItemCalls(run) == {i \in CacheAt("issue", "setItem") : cacheLog[i].run = run}

CryptoSteps == {"getCacheEncryptionKey", "encryptData", "encryptSnapshot"}

(* the three entries are absent, or were stored by one run and the state  *)
(* and the snapshot are encrypted under the key of the stored salt        *)
SameRun(st) ==
    \/ st.salt = None /\ st.state = None /\ st.snapshot = None
    \/ /\ st.salt # None /\ st.state # None /\ st.snapshot # None
       /\ Get(st.state).by = Get(st.salt).by
       /\ Get(st.snapshot).by = Get(st.salt).by
       /\ Get(st.state).value.key.salt = Get(st.salt).value
       /\ Get(st.snapshot).value.key.salt = Get(st.salt).value

(* C22: whenever no cacheWorker is running, the entries salt, state and   *)
(* snapshot of local storage were written by the same cacheWorker run and *)
(* the stored state and snapshot are encrypted under the key derived from *)
(* the stored salt.                                                       *)
C22_StoredEntriesFromOneRun ==
    worker = None => SameRun(storage)

(* C23: the worker that takeLatest holds is the one of the last action;   *)
(* once a later action has arrived a run calls nothing more; a run        *)
(* cancelled during its wait has done nothing at all; a run calls setItem *)
(* at most once per entry; and when every action but the last was         *)
(* followed by the next one during the wait, every setItem call is made   *)
(* by the run of the last action.                                         *)
C23_OnlyTheLatestWorkerActs ==
    /\ worker # None => Get(worker).run = runs
    /\ \A i \in CacheAt("fork", "cacheWorker") : cacheLog[i].run = Cardinality({j \in CacheAt("fork", "cacheWorker") : j <= i})
    /\ Cardinality(CacheAt("fork", "cacheWorker")) = runs
    /\ \A i \in CacheAt("fork", "cacheWorker") :
        \A j \in DOMAIN cacheLog :
            (j > i /\ cacheLog[j].run < cacheLog[i].run) => j \notin ByWorker(cacheLog[j].run)
    /\ \A i \in CacheAt("cancel", "cacheWorker") :
        cacheLog[i].arg = "wait" => ByWorker(cacheLog[i].run) = {}
    /\ \A r \in 1..runs : \A i, j \in SetItemCalls(r) :
        cacheLog[i].arg.item = cacheLog[j].arg.item => i = j
    /\ (\A r \in 1..(runs - 1) : \E i \in CacheAt("cancel", "cacheWorker") :
            cacheLog[i].run = r /\ cacheLog[i].arg = "wait")
        => \A i \in CacheAt("issue", "setItem") : cacheLog[i].run = runs

C23_Witness ==
    /\ runs = 2
    /\ \E i \in CacheAt("cancel", "cacheWorker") : cacheLog[i].run = 1 /\ cacheLog[i].arg = "wait"
    /\ Cardinality(SetItemCalls(2)) = 3
    /\ worker = None
    /\ \A item \in {"salt", "state", "snapshot"} : storage[item] # None /\ Get(storage[item]).by = 2

(* C24: a run calls getCacheEncryptionKey, encryptData or setItem only    *)
(* after it found a session when its wait was over, and a run that found  *)
(* none does nothing more.                                                *)
C24_NoSessionNoWrite ==
    /\ \A i \in DOMAIN cacheLog :
        cacheLog[i].ev = "issue" =>
            \E j \in CacheAt("wake", "hasSession") :
                j < i /\ cacheLog[j].run = cacheLog[i].run /\ cacheLog[j].arg = TRUE
    /\ \A j \in CacheAt("wake", "hasSession") :
        cacheLog[j].arg = FALSE =>
            /\ \A i \in ByWorker(cacheLog[j].run) : i <= j
            /\ ~(worker # None /\ Get(worker).run = cacheLog[j].run)
            /\ \A item \in DOMAIN storage :
                storage[item] # None => Get(storage[item]).by # cacheLog[j].run

C24_Witness ==
    /\ runs = 2
    /\ \E j \in CacheAt("wake", "hasSession") : cacheLog[j].run = 1 /\ cacheLog[j].arg = FALSE
    /\ \E j \in CacheAt("wake", "hasSession") : cacheLog[j].run = 2 /\ cacheLog[j].arg = TRUE
    /\ Cardinality(SetItemCalls(2)) = 3
    /\ worker = None
    /\ Get(storage.salt).by = 2

(* C25: no failure reaches the watcher, which goes on taking actions; a   *)
(* run ends with the failure of any of its steps; and a run whose key     *)
(* derivation or encryption failed has called setItem for no entry, so    *)
(* nothing in local storage is from it.                                   *)
C25_FailuresAreSwallowed ==
    /\ watcher = "running"
    /\ \A i \in DOMAIN cacheLog :
        cacheLog[i].ev = "reject" =>
            /\ \A j \in ByWorker(cacheLog[i].run) : j <= i
            /\ ~(worker # None /\ Get(worker).run = cacheLog[i].run)
            /\ cacheLog[i].op \in CryptoSteps =>
                /\ SetItemCalls(cacheLog[i].run) = {}
                /\ \A item \in DOMAIN storage :
                    storage[item] # None => Get(storage[item]).by # cacheLog[i].run

C25_Witness ==
    /\ \E i \in CacheAt("reject", "encryptSnapshot") :
        /\ cacheLog[i].run = 1
        /\ \E j \in CacheAt("fork", "cacheWorker") : j > i /\ cacheLog[j].run = 2
    /\ \E i \in CacheAt("reject", "setItem") : cacheLog[i].run = 2
    /\ storage.salt # None /\ Get(storage.salt).by = 2
    /\ storage.state # None /\ Get(storage.state).by = 0

(* ------------------- reading the history of the login edit form ------- *)

(* the conditions of an alias to create *)
AliasToCreate(values) ==
    /\ values.withAlias = TRUE
    /\ values.aliasSuffix # None
    /\ values.aliasPrefix # ""
    /\ Len(values.mailboxes) >= 1

(* C26: a submission with an alias to create dispatches the alias         *)
(* itemCreationIntent immediately before its onSubmit call, with a        *)
(* createTime strictly earlier than the mutation time of the submission;  *)
(* a submission without one dispatches nothing; and every submission      *)
(* calls onSubmit exactly once, for the login.                            *)
C26_AliasIntentBeforeLogin ==
    /\ \A i \in DOMAIN loginLog :
        loginLog[i].ev = "dispatch" =>
            /\ AliasToCreate(loginLog[i].values)
            /\ loginLog[i].arg.type = "itemCreationIntent"
            /\ loginLog[i].arg.payload.type = "alias"
            /\ loginLog[i].arg.payload.createTime < loginLog[i].mutationTime
            /\ i + 1 \in Submissions
            /\ loginLog[i + 1].values = loginLog[i].values
            /\ loginLog[i + 1].mutationTime = loginLog[i].mutationTime
    /\ \A i \in Submissions :
        /\ loginLog[i].arg.type = "login"
        /\ AliasToCreate(loginLog[i].values) <=> (i > 1 /\ loginLog[i - 1].ev = "dispatch")

C26_Witness ==
    /\ Len(loginLog) = 2
    /\ loginLog[1].ev = "dispatch"
    /\ loginLog[1].arg.payload.createTime = 1699999999
    /\ loginLog[1].arg.payload.extraData.prefix = "shop"
    /\ Len(loginLog[1].arg.payload.extraData.mailboxes) = 2
    /\ loginLog[2].ev = "onSubmit"
    /\ loginLog[2].arg.content.urls = <<"https://shop.x", "https://pay.x">>

(* C27: when a single edit is being created and the corrected type is     *)
(* SEND_UPDATE, onEquivalentAttendees is called with the type already     *)
(* changed to SEND_INVITATION, and otherwise with the corrected type;     *)
(* isSendInviteType is true exactly when the type of the inviteActions    *)
(* returned is SEND_INVITATION or SEND_UPDATE, and the method handed to   *)
(* getInviteVeventWithUpdatedParstats is REQUEST exactly then and         *)
(* undefined otherwise.                                                   *)
C27_SingleEditSendsInvitation ==
    Called("getCorrectedSendInviteData") =>
        LET args == Get(call).args
            corrected == Get(call).env.correctedSaveInviteActions.type
            singleEdit == args.isCreatingSingleEdit = Some(TRUE)
            out == Get(returned)
        IN  /\ Len(out.calls) = 1
            /\ out.calls[1].veventComponent = args.newVevent
            /\ (singleEdit /\ corrected = "SEND_UPDATE")
                => out.calls[1].inviteActions.type = "SEND_INVITATION"
            /\ ~(singleEdit /\ corrected = "SEND_UPDATE")
                => out.calls[1].inviteActions.type = corrected
            /\ out.result.kind = "ok" =>
                /\ out.result.isSendInviteType
                    <=> out.result.inviteActions.type \in {"SEND_INVITATION", "SEND_UPDATE"}
                /\ out.result.isSendInviteType => out.result.vevent.method = Some("REQUEST")
                /\ ~out.result.isSendInviteType => out.result.vevent.method = None

C27_Witness ==
    /\ Called("getCorrectedSendInviteData")
    /\ Get(call).args.isCreatingSingleEdit = Some(TRUE)
    /\ Get(call).env.correctedSaveInviteActions.type = "SEND_UPDATE"
    /\ Get(call).env.onEquivalentAttendees.sets = None
    /\ Get(returned).calls[1].inviteActions.type = "SEND_INVITATION"
    /\ Get(returned).result.kind = "ok"
    /\ Get(returned).result.isSendInviteType
    /\ Get(returned).result.vevent.method = Some("REQUEST")

(* the page buttons: page 1, the current page and the last page are       *)
(* there, the numbers ascend strictly and lie between 1 and total         *)
WellFormedPages(pages, page, total) ==
    /\ \E i \in DOMAIN pages : pages[i] = 1
    /\ \E i \in DOMAIN pages : pages[i] = page
    /\ \E i \in DOMAIN pages : pages[i] = total
    /\ \A i \in DOMAIN pages : i > 1 => pages[i - 1] < pages[i]
    /\ \A i \in DOMAIN pages : 1 <= pages[i] /\ pages[i] <= total

ModalAt(ev) == {i \in DOMAIN modalLog : modalLog[i].ev = ev}

SameHandler(i) == {j \in DOMAIN modalLog : modalLog[j].handler = modalLog[i].handler}

(* C29: a submit with password different from its confirmation creates   *)
(* the error notification, calls neither onChange nor onClose and leaves  *)
(* the message as it was; a submit with equal values sets FLAG_INTERNAL   *)
(* and stores Password and PasswordHint, then closes; a cancel clears     *)
(* FLAG_INTERNAL and sets Password and PasswordHint to undefined, then    *)
(* closes; and the message has a Password only if FLAG_INTERNAL is set.   *)
C29_PasswordOnlyWithInternalFlag ==
    /\ composerMessage # None =>
        (Get(composerMessage).data.Password # None
            => (Get(composerMessage).data.Flags # None
                /\ hasBit(Get(Get(composerMessage).data.Flags), FLAG_INTERNAL)))
    /\ \A i \in ModalAt("createNotification") :
        /\ modalLog[i].fields.password # modalLog[i].fields.passwordVerif
        /\ SameHandler(i) = {i}
        /\ modalLog[i].message = modalLog[i - 1].message
    /\ \A i \in ModalAt("onChange") :
        /\ SameHandler(i) = {i, i + 1}
        /\ modalLog[i + 1].ev = "onClose"
        /\ LET before == modalLog[i - 1].message.data
               after == modalLog[i].message.data
               wasSet == before.Flags # None /\ hasBit(Get(before.Flags), FLAG_INTERNAL)
               base == IF before.Flags = None THEN 0 ELSE Get(before.Flags)
           IN  \/ /\ modalLog[i].fields.password = modalLog[i].fields.passwordVerif
                  /\ after.Password = Some(modalLog[i].fields.password)
                  /\ after.PasswordHint = Some(modalLog[i].fields.passwordHint)
                  /\ after.Flags = Some(IF wasSet THEN base ELSE base + FLAG_INTERNAL)
               \/ /\ after.Password = None
                  /\ after.PasswordHint = None
                  /\ after.Flags = Some(IF wasSet THEN base - FLAG_INTERNAL ELSE base)
    /\ \A i \in ModalAt("onClose") : i > 1 /\ modalLog[i - 1].ev = "onChange"

C29_Witness ==
    /\ opens = 2
    /\ modal = None
    /\ Len(modalLog) = 7
    /\ modalLog[1].message.data.Password = None
    /\ modalLog[2].ev = "createNotification"
    /\ modalLog[3].ev = "onChange"
    /\ modalLog[3].message.data.Password = Some("other")
    /\ modalLog[3].message.data.Flags = Some(5)
    /\ modalLog[5].ev = "open"
    /\ modalLog[5].fields.passwordVerif = "other"
    /\ modalLog[6].ev = "onChange"
    /\ Get(composerMessage).data = [Flags |-> Some(1), Password |-> None, PasswordHint |-> None]

====
